---- MODULE Spec2Model ----
(***************************************************************************)
(* Contest Reconciliation Engine: the submission evaluator                 *)
(* (submissions_parser.py), the contest window resolver                    *)
(* (contest_detector.py) and the scheduler with its processed-state store  *)
(* (scheduler.py).                                                         *)
(*                                                                         *)
(* Three specifications share the module:                                  *)
(*   SpecEval     one call of evaluate_student_submissions                 *)
(*   SpecResolve  one call of get_recent_contests                          *)
(*   Spec         the scheduler process: start, ticks, runs, restarts      *)
(***************************************************************************)
EXTENDS Integers, Sequences, FiniteSets, TLC

VARIABLES
    \* ---- evaluator (submissions_parser.py)
    ev_pc,              \* "call" before the call, "done" after it
    ev_args,            \* the arguments of evaluate_student_submissions
    ev_meta_net,        \* what the contest metadata API answers, per attempt
    ev_sub_net,         \* what the submissions API answers, per attempt
    ev_result,          \* the outcome of the call: a return value or a raise
    api_endpoint_index, \* the module global _api_endpoint_index
    \* ---- resolver (contest_detector.py)
    rs_pc,              \* "call" before the call, "done" after it
    rs_now,             \* time.time() when the call was made
    rs_include_upcoming,\* the argument of get_recent_contests
    rs_world,           \* what the contest API answers, per contest number
    rs_result,          \* the outcome of the call: the two windows, or a raise
    \* ---- scheduler (scheduler.py)
    sc_pc,              \* where the process is: "down", or a position of main / run
    sc_now,             \* the wall clock, UNIX seconds
    sc_iter,            \* iterations of the polling loop made by this process
    sc_config,          \* self.config: TRUE when the sheet fields were loaded
    sc_status,          \* ContestStatusTracker.status, in memory
    sc_disk,            \* the status file contest_status.json
    sc_recent,          \* main: recent, the result of get_recent_contests
    sc_run,             \* process_contest: the contest, the results, the caller
    sc_writes,          \* completed write_contest_results calls, per slug
    sc_life_writes,     \* the same, by the process now running
    sc_completed,       \* process_contest calls that returned True, per slug
    sc_last_marked,     \* the slug of this process's last mark_processed
    sc_last_save,       \* how this process's last _save_status ended
    sc_log,             \* what this process has done so far (history)
    sc_refreshed,       \* the day of the last stats job that ended with code 0 (history)
    pl_pc,              \* main.py: where the one-shot pipeline is
    pl_config,          \* what is at the --config path
    pl_dry_run,         \* --dry-run
    pl_answers,         \* what the submissions API answers, student by student
    pl_problems,        \* contest_problems
    pl_results,         \* results
    pl_written,         \* what write_contest_results was given, in a some/v record
    pl_requests,        \* the requests made: _api_endpoint_index of this process
    pl_failed_at,       \* the step at which the process exited with status 1, or ""
    \* ---- the sheet (sheets_handler.py)
    sh_pc,              \* "open" before the sheet is read, "ready" after
    sh_rows,            \* the data rows of the worksheet, from row 2 on
    sh_header,          \* row 1 of the worksheet
    sh_cells,           \* the result cells written so far, by <<column, row>>
    sh_students,        \* what read_students returned
    sh_calls            \* the calls of write_contest_results so far (history)

ev_call == <<ev_pc, ev_args, ev_meta_net, ev_sub_net, ev_result>>
ev_vars == <<ev_call, api_endpoint_index>>
rs_vars == <<rs_pc, rs_now, rs_include_upcoming, rs_world, rs_result>>
sc_vars == <<sc_pc, sc_now, sc_iter, sc_config, sc_status, sc_disk, sc_recent, sc_run,
             sc_writes, sc_life_writes, sc_completed, sc_last_marked, sc_last_save,
             sc_log, sc_refreshed>>
pl_vars == <<pl_pc, pl_config, pl_dry_run, pl_answers, pl_problems, pl_results,
             pl_written, pl_requests, pl_failed_at>>
sh_vars == <<sh_pc, sh_rows, sh_header, sh_cells, sh_students, sh_calls>>
vars == <<ev_vars, rs_vars, sc_vars, pl_vars, sh_vars>>

(***************************************************************************)
(* Python values                                                           *)
(***************************************************************************)
NoneInt == [some |-> FALSE, v |-> 0]
SomeInt(n) == [some |-> TRUE, v |-> n]
NoneList == [some |-> FALSE, v |-> <<>>]
SomeList(l) == [some |-> TRUE, v |-> l]

\* A JSON field of a submission: a string, or the key is absent, or null.
Str(s) == [tag |-> "str", v |-> s]
Absent == [tag |-> "absent", v |-> ""]
\* A timestamp field: a string of characters, or absent, or null.
TsStr(cs) == [tag |-> "str", v |-> cs]
TsAbsent == [tag |-> "absent", v |-> <<>>]
TsNull == [tag |-> "null", v |-> <<>>]

Returned(s) == [raised |-> FALSE, value |-> s]
Raised(e) == [raised |-> TRUE, value |-> e]

Range(s) == {s[i] : i \in 1..Len(s)}

(***************************************************************************)
(* int(str): Python's parse of a decimal string.  The model's alphabet is  *)
(* the ten digits and the letter x; the empty string and any string        *)
(* holding a non-digit raise ValueError.                                   *)
(***************************************************************************)
Digits == {"0", "1", "2", "3", "4", "5", "6", "7", "8", "9"}

DigitVal(c) ==
    CASE c = "0" -> 0 [] c = "1" -> 1 [] c = "2" -> 2 [] c = "3" -> 3
      [] c = "4" -> 4 [] c = "5" -> 5 [] c = "6" -> 6 [] c = "7" -> 7
      [] c = "8" -> 8 [] c = "9" -> 9

RECURSIVE DecimalValue(_, _)
DecimalValue(cs, acc) ==
    IF cs = <<>> THEN acc
    ELSE DecimalValue(Tail(cs), 10 * acc + DigitVal(Head(cs)))

\* int(x) for x a string of characters: NoneInt stands for ValueError.
ParseInt(cs) ==
    IF cs = <<>> \/ \E i \in 1..Len(cs) : cs[i] \notin Digits
    THEN NoneInt
    ELSE SomeInt(DecimalValue(cs, 0))

(***************************************************************************)
(* submissions_parser.py constants                                         *)
(***************************************************************************)
MAX_RETRIES == 3
NumEndpoints == 3

(***************************************************************************)
(* fetch_contest_metadata.  net is the sequence of the API's answers, one  *)
(* per attempt: "err" (non-200 status, or the request raised) or a record  *)
(* [start_time, duration, problems] with start_time and duration optional. *)
(* The value is [raised, md]: raised stands for the RuntimeError.           *)
(***************************************************************************)
MetaErr == [ok |-> FALSE, start_time |-> NoneInt, duration |-> NoneInt, problems |-> <<>>]
MetaOk(s, d, p) == [ok |-> TRUE, start_time |-> s, duration |-> d, problems |-> p]

RECURSIVE MetadataAttempt(_, _)
MetadataAttempt(net, attempt) ==
    IF attempt > MAX_RETRIES THEN [raised |-> TRUE, md |-> MetaErr]
    ELSE LET r == net[attempt] IN
         IF r.ok /\ r.start_time.some /\ r.duration.some
         THEN [raised |-> FALSE,
               md |-> [start_time |-> r.start_time.v,
                       duration |-> r.duration.v,
                       problems |-> r.problems]]
         ELSE MetadataAttempt(net, attempt + 1)

fetch_contest_metadata(net) == MetadataAttempt(net, 1)

(***************************************************************************)
(* fetch_user_submissions.  net is the sequence of the API's answers, one  *)
(* per attempt: "timeout", "reqerr" (RequestException, HTTP error status), *)
(* "other" (any other exception) or "ok" with the JSON object, of which    *)
(* the model keeps: whether the keys count and submission are present, the *)
(* count, the submission list and the number of further keys.              *)
(* The value is [unknown, subs, attempts]: unknown stands for the None the *)
(* function returns for an invalid id, attempts for the requests made.     *)
(***************************************************************************)
NetFail(kind) ==
    [kind |-> kind, has_count |-> FALSE, count |-> 0, has_submission |-> FALSE,
     submission |-> <<>>, extra |-> 0]
NetOk(hc, c, hs, subs, extra) ==
    [kind |-> "ok", has_count |-> hc, count |-> c, has_submission |-> hs,
     submission |-> subs, extra |-> extra]

\* len(data): the number of keys of the JSON object
DataLen(r) == (IF r.has_count THEN 1 ELSE 0) + (IF r.has_submission THEN 1 ELSE 0) + r.extra

RECURSIVE SubmissionsAttempt(_, _)
SubmissionsAttempt(net, attempt) ==
    IF attempt > MAX_RETRIES THEN [unknown |-> FALSE, subs |-> <<>>, attempts |-> MAX_RETRIES]
    ELSE LET r == net[attempt]
             count == IF r.has_count THEN r.count ELSE 0
             submissions == IF r.has_submission THEN r.submission ELSE <<>>
         IN
         CASE r.kind = "ok" ->
                IF count = 0 /\ Len(submissions) = 0
                   /\ DataLen(r) = 2 /\ r.has_count /\ r.has_submission
                THEN [unknown |-> TRUE, subs |-> <<>>, attempts |-> attempt]
                ELSE [unknown |-> FALSE, subs |-> submissions, attempts |-> attempt]
          [] r.kind \in {"timeout", "reqerr"} ->
                IF attempt < MAX_RETRIES
                THEN SubmissionsAttempt(net, attempt + 1)
                ELSE [unknown |-> FALSE, subs |-> <<>>, attempts |-> attempt]
          [] OTHER -> [unknown |-> FALSE, subs |-> <<>>, attempts |-> attempt]

\* A variant that takes every answer with no submissions for an invalid id.
fetch_user_submissions_EmptyIsInvalid(net) ==
    LET r == SubmissionsAttempt(net, 1) IN
    IF net[r.attempts].kind = "ok" /\ r.subs = <<>> THEN [r EXCEPT !.unknown = TRUE] ELSE r

fetch_user_submissions(net) == SubmissionsAttempt(net, 1)

\* A variant of EndpointOf: the mirror changes with every second request,
\* so that a retry may go to the mirror that has just failed.
EndpointOf_EverySecond(index) == (index \div 2) % NumEndpoints

\* The mirror the n-th request of the process goes to (0-based index).
EndpointOf(index) == index % NumEndpoints

\* api_base of the requests of one call of fetch_user_submissions, in
\* order: the call finds the counter at index, and every pass of the retry
\* loop takes the mirror of the counter and adds one to it.
ApiBases(index, net) ==
    [k \in 1..fetch_user_submissions(net).attempts |-> EndpointOf(index + k - 1)]

\* api_base of every request of the calls made for nets[i], nets[i+1], ...
\* one after the other, the counter being at index before the first.
RECURSIVE ClassApiBases(_, _, _)
ClassApiBases(nets, i, index) ==
    IF i > Len(nets) THEN <<>>
    ELSE ApiBases(index, nets[i])
         \o ClassApiBases(nets, i + 1, index + fetch_user_submissions(nets[i]).attempts)

(***************************************************************************)
(* evaluate_student_submissions                                            *)
(***************************************************************************)
\* sub.get(key, default) for a string field
GetStr(field, default) == IF field.tag = "str" THEN field.v ELSE default

\* int(sub.get('timestamp', '0')) inside try/except (ValueError, TypeError):
\* NoneInt stands for the except branch (the record is skipped).
SubTimestamp(sub) ==
    CASE sub.timestamp.tag = "absent" -> ParseInt(<<"0">>)
      [] sub.timestamp.tag = "null" -> NoneInt
      [] OTHER -> ParseInt(sub.timestamp.v)

\* MUTANT of InContestWindow: the upper end is exclusive.
InContestWindow_Exclusive(start, ts, end) ==
    IF ~start.some THEN "TypeError"
    ELSE IF ~(start.v <= ts) THEN "no"
    ELSE IF ~end.some THEN "TypeError"
    ELSE IF ts < end.v THEN "yes" ELSE "no"

\* contest_start_ts <= timestamp <= contest_end_ts, as Python evaluates the
\* chained comparison: "TypeError" when an operand it reaches is None.
InContestWindow(start, ts, end) ==
    IF ~start.some THEN "TypeError"
    ELSE IF ~(start.v <= ts) THEN "no"
    ELSE IF ~end.some THEN "TypeError"
    ELSE IF ts <= end.v THEN "yes" ELSE "no"

\* The state of the for loop over submissions: relevant counts
\* relevant_submissions, accepted is accepted_problems, raised tells that
\* the window test raised.
LoopStart == [relevant |-> 0, accepted |-> {}, raised |-> FALSE]

\* MUTANT of LoopBody: the problem is not checked against the contest's.
LoopBody_AnyProblem(acc, sub, problem_set, start, end) ==
    LET title_slug == GetStr(sub.titleSlug, "")
        status == GetStr(sub.statusDisplay, "")
        timestamp == SubTimestamp(sub)
    IN
    IF ~timestamp.some THEN acc
    ELSE LET w == InContestWindow(start, timestamp.v, end) IN
         IF w = "TypeError" THEN [acc EXCEPT !.raised = TRUE]
         ELSE IF w = "no" THEN acc
         ELSE [acc EXCEPT !.relevant = @ + 1,
                          !.accepted = IF status = "Accepted"
                                       THEN @ \cup {title_slug} ELSE @]

\* MUTANT of LoopBody: an Accepted record is tracked before the window test.
LoopBody_AcceptedAnywhere(acc, sub, problem_set, start, end) ==
    LET title_slug == GetStr(sub.titleSlug, "")
        status == GetStr(sub.statusDisplay, "")
        timestamp == SubTimestamp(sub)
        tracked == IF status = "Accepted"
                   THEN [acc EXCEPT !.accepted = @ \cup {title_slug}] ELSE acc
    IN
    IF ~timestamp.some THEN acc
    ELSE IF title_slug \notin problem_set THEN acc
    ELSE LET w == InContestWindow(start, timestamp.v, end) IN
         IF w = "TypeError" THEN [acc EXCEPT !.raised = TRUE]
         ELSE IF w = "no" THEN tracked
         ELSE [tracked EXCEPT !.relevant = @ + 1]

\* MUTANT of LoopBody: the last status of a problem wins.
LoopBody_LastStatusWins(acc, sub, problem_set, start, end) ==
    LET title_slug == GetStr(sub.titleSlug, "")
        status == GetStr(sub.statusDisplay, "")
        timestamp == SubTimestamp(sub)
    IN
    IF ~timestamp.some THEN acc
    ELSE IF title_slug \notin problem_set THEN acc
    ELSE LET w == InContestWindow(start, timestamp.v, end) IN
         IF w = "TypeError" THEN [acc EXCEPT !.raised = TRUE]
         ELSE IF w = "no" THEN acc
         ELSE [acc EXCEPT !.relevant = @ + 1,
                          !.accepted = IF status = "Accepted"
                                       THEN @ \cup {title_slug}
                                       ELSE @ \ {title_slug}]

\* One iteration of the loop, lines 236-259.
LoopBody(acc, sub, problem_set, start, end) ==
    LET title_slug == GetStr(sub.titleSlug, "")
        status == GetStr(sub.statusDisplay, "")
        timestamp == SubTimestamp(sub)
    IN
    IF ~timestamp.some THEN acc
    ELSE IF title_slug \notin problem_set THEN acc
    ELSE LET w == InContestWindow(start, timestamp.v, end) IN
         IF w = "TypeError" THEN [acc EXCEPT !.raised = TRUE]
         ELSE IF w = "no" THEN acc
         ELSE [acc EXCEPT !.relevant = @ + 1,
                          !.accepted = IF status = "Accepted"
                                       THEN @ \cup {title_slug} ELSE @]

\* MUTANT of DetermineResult: the test for no relevant submission is dropped.
DetermineResult_NoRelevantTest(acc) ==
    IF acc.accepted = {} THEN Returned("0")
    ELSE Returned(ToString(Cardinality(acc.accepted)))

\* Lines 261-271.
DetermineResult(acc) ==
    IF acc.relevant = 0 THEN Returned("N/A")
    ELSE IF acc.accepted = {} THEN Returned("0")
    ELSE Returned(ToString(Cardinality(acc.accepted)))

\* The loop from record i on; a raise ends it.
RECURSIVE EvaluateLoop(_, _, _, _, _, _)
EvaluateLoop(subs, i, problem_set, start, end, acc) ==
    IF acc.raised THEN Raised("TypeError")
    ELSE IF i > Len(subs) THEN DetermineResult(acc)
    ELSE EvaluateLoop(subs, i + 1, problem_set, start, end,
                      LoopBody(acc, subs[i], problem_set, start, end))

\* Lines 200-212: the window the rest of the function works with.
\*   fetched: whether fetch_contest_metadata was called
\*   early:   whether the function returns "N/A" at line 212
EffectiveWindow(args, meta_net) ==
    IF args.contest_problems.some /\ args.contest_start_ts.some /\ args.contest_end_ts.some
    THEN [fetched |-> FALSE, early |-> FALSE, problems |-> args.contest_problems,
          start |-> args.contest_start_ts, end |-> args.contest_end_ts]
    ELSE LET m == fetch_contest_metadata(meta_net) IN
         IF ~m.raised
         THEN [fetched |-> TRUE, early |-> FALSE,
               problems |-> SomeList(m.md.problems),
               start |-> SomeInt(m.md.start_time),
               end |-> SomeInt(m.md.start_time + m.md.duration)]
         ELSE [fetched |-> TRUE, early |-> ~args.contest_problems.some,
               problems |-> args.contest_problems,
               start |-> args.contest_start_ts, end |-> args.contest_end_ts]

\* The whole function: [result, attempts], attempts being the requests
\* fetch_user_submissions made (0 when it was not called).
evaluate_student_submissions(args, meta_net, sub_net) ==
    LET w == EffectiveWindow(args, meta_net) IN
    IF w.early THEN [result |-> Returned("N/A"), attempts |-> 0]
    ELSE LET f == fetch_user_submissions(sub_net) IN
         [result |->
              IF f.unknown THEN Returned("INVALID ID")
              ELSE IF Len(f.subs) = 0 THEN Returned("N/A")
              ELSE EvaluateLoop(f.subs, 1, Range(w.problems.v), w.start, w.end, LoopStart),
          attempts |-> f.attempts]

(***************************************************************************)
(* Inputs of one evaluation                                                *)
(***************************************************************************)
MaxSubs == 2        \* longest activity history the API answers with

T9 == <<"9">>
T10 == <<"1", "0">>
T11 == <<"1", "1">>
T12 == <<"1", "2">>

Sub(slug, ts, status) ==
    [titleSlug |-> slug, timestamp |-> ts, statusDisplay |-> status]

\* The records a history is made of: Accepted records for the two contest
\* problems at every timestamp around the window, rejected ones inside it,
\* a problem of no contest, and records with an unparsable and a missing
\* timestamp, a missing slug and a missing status.
SubUniverse ==
    {Sub(Str(p), TsStr(t), Str("Accepted")) : p \in {"p1", "p2"}, t \in {T9, T10, T11, T12}}
    \cup {Sub(Str("p1"), TsStr(T10), Str("Wrong Answer")),
          Sub(Str("p1"), TsStr(T11), Str("Wrong Answer")),
          Sub(Str("p2"), TsStr(T11), Str("Wrong Answer")),
          Sub(Str("p3"), TsStr(T10), Str("Accepted")),
          Sub(Str("p1"), TsStr(<<"1", "x">>), Str("Accepted")),
          Sub(Str("p1"), TsAbsent, Str("Accepted")),
          Sub(Absent, TsStr(T10), Str("Accepted")),
          Sub(Str("p1"), TsStr(T10), Absent)}

RECURSIVE SeqsUpTo(_, _)
SeqsUpTo(S, n) ==
    IF n = 0 THEN {<<>>}
    ELSE LET shorter == SeqsUpTo(S, n - 1) IN
         shorter \cup {Append(h, x) : h \in {g \in shorter : Len(g) = n - 1}, x \in S}

Histories == SeqsUpTo(SubUniverse, MaxSubs)

\* A well-formed answer carrying history h: {"count": len(h), "submission": h}
Answer(h) == NetOk(TRUE, Len(h), TRUE, h, 0)

\* Answers without a history, in every shape the heuristic of lines
\* 136-141 tells apart, failures before an answer, and failures only.
ShortSubNets ==
    {<<Answer(h)>> : h \in SeqsUpTo(SubUniverse, 1)}
    \cup {<<NetOk(TRUE, 0, TRUE, <<>>, 1)>>, <<NetOk(FALSE, 0, TRUE, <<>>, 0)>>,
          <<NetOk(TRUE, 0, FALSE, <<>>, 1)>>, <<NetOk(TRUE, 2, TRUE, <<>>, 0)>>,
          <<NetOk(FALSE, 0, TRUE, <<>>, 1)>>}
    \cup {pre \o <<Answer(h)>> :
            pre \in {<<NetFail("timeout")>>, <<NetFail("reqerr"), NetFail("timeout")>>},
            h \in SeqsUpTo(SubUniverse, 1)}
    \cup {<<NetFail("timeout"), NetFail("timeout"), NetFail("timeout")>>,
          <<NetFail("reqerr"), NetFail("timeout"), NetFail("reqerr")>>,
          <<NetFail("other")>>,
          <<NetFail("timeout"), NetFail("other")>>}

SubNets == {<<Answer(h)>> : h \in Histories} \cup ShortSubNets

MetaNets ==
    {<<MetaErr, MetaErr, MetaErr>>,
     <<MetaOk(SomeInt(11), SomeInt(1), <<"p1", "p2">>)>>,
     <<MetaErr, MetaOk(SomeInt(11), NoneInt, <<"p1">>),
       MetaOk(SomeInt(10), SomeInt(1), <<"p2", "p2">>)>>,
     <<MetaOk(NoneInt, SomeInt(1), <<"p1">>), MetaErr,
       MetaOk(SomeInt(11), NoneInt, <<"p1">>)>>}

Args(p, s, e) == [contest_problems |-> p, contest_start_ts |-> s, contest_end_ts |-> e]

\* The window supplied in full,
FullArgs ==
    {Args(SomeList(p), SomeInt(w[1]), SomeInt(w[2])) :
        p \in {<<"p1", "p2">>, <<"p1">>}, w \in {<<10, 11>>, <<11, 11>>}}
\* and in part or not at all.
PartialArgs ==
    {Args(NoneList, NoneInt, NoneInt), Args(NoneList, SomeInt(10), SomeInt(11)),
     Args(SomeList(<<"p1", "p2">>), NoneInt, NoneInt),
     Args(SomeList(<<"p1", "p2">>), SomeInt(10), NoneInt),
     Args(SomeList(<<"p1", "p2">>), NoneInt, SomeInt(11))}

\* The inputs of a call: <<arguments, metadata answers, submissions answers>>.
\* The metadata API is asked only when the window is not supplied in full.
EvalInputs ==
    {<<a, <<>>, sn>> : a \in FullArgs, sn \in SubNets}
    \cup {<<a, mn, sn>> : a \in PartialArgs, mn \in MetaNets, sn \in ShortSubNets}

NoArgs == Args(NoneList, NoneInt, NoneInt)
NoResult == Returned("")

(***************************************************************************)
(* SpecEval: one call of evaluate_student_submissions                      *)
(***************************************************************************)
EvInit ==
    /\ ev_pc = "call"
    /\ ev_args = NoArgs
    /\ ev_meta_net = <<>>
    /\ ev_sub_net = <<>>
    /\ ev_result = NoResult
    /\ api_endpoint_index = 0

\* The call: the arguments and what the two APIs answer for this contest
\* and this identity are the inputs.
Evaluate ==
    /\ ev_pc = "call"
    /\ \E in \in EvalInputs :
          LET r == evaluate_student_submissions(in[1], in[2], in[3]) IN
          /\ ev_args' = in[1]
          /\ ev_meta_net' = in[2]
          /\ ev_sub_net' = in[3]
          /\ ev_result' = r.result
          /\ api_endpoint_index' = api_endpoint_index + r.attempts
    /\ ev_pc' = "done"
    /\ UNCHANGED <<rs_vars, sc_vars, pl_vars, sh_vars>>

EvNext == Evaluate

(***************************************************************************)
(* contest_detector.py                                                     *)
(***************************************************************************)
DETECTOR_MAX_RETRIES == 3
WEEKLY_EPOCH == 1451606400      \* datetime(2016, 1, 1)
BIWEEKLY_EPOCH == 1556668800    \* datetime(2019, 5, 1)
WEEKLY_FLOOR == 470
BIWEEKLY_FLOOR == 140
WEEKLY_SCAN == 25
BIWEEKLY_SCAN == 15
SecondsPerDay == 86400

\* datetime.now(): the naive local time of the server, US East (UTC-5),
\* in seconds.
LocalNow(t) == t - 5 * 3600

\* int(x / 7) and int(x / 7 / 2) truncate toward zero.
TruncDiv(a, b) == IF a >= 0 THEN a \div b ELSE -((-a) \div b)

\* (now - START_DATE).days: timedelta.days is the floor.
DaysSince(t, epoch) == (LocalNow(t) - epoch) \div SecondsPerDay

estimate_current_contest_numbers(t) ==
    [weekly |-> TruncDiv(DaysSince(t, WEEKLY_EPOCH), 7),
     biweekly |-> TruncDiv(DaysSince(t, BIWEEKLY_EPOCH), 14)]

Max(a, b) == IF a >= b THEN a ELSE b

\* f"weekly-contest-{i}", f"biweekly-contest-{i}"
SlugOf(family, i) == family \o "-contest-" \o ToString(i)

\* One answer of the contest API: a failure (non-200, exception) or the
\* JSON, of which the model keeps contest.start_time, contest.duration,
\* contest.title and the questions' title_slugs.
ProbeErr == [ok |-> FALSE, start_time |-> NoneInt, duration |-> NoneInt,
             title |-> "", problems |-> <<>>]
ProbeOk(s, d, t, p) == [ok |-> TRUE, start_time |-> s, duration |-> d,
                        title |-> t, problems |-> p]

\* Python truthiness of an optional int: None and 0 are false.
Truthy(x) == x.some /\ x.v # 0

NoInfo == [title |-> "", slug |-> "", start_time |-> NoneInt, duration |-> NoneInt,
           end_time |-> NoneInt, problems |-> <<>>]

\* Lines 128-135: the dictionary built from an answer.
ContestInfo(slug, r) ==
    [title |-> r.title,
     slug |-> slug,
     start_time |-> IF Truthy(r.start_time) THEN r.start_time ELSE NoneInt,
     duration |-> IF Truthy(r.duration) THEN r.duration ELSE NoneInt,
     end_time |-> IF Truthy(r.start_time) /\ Truthy(r.duration)
                  THEN SomeInt(r.start_time.v + r.duration.v) ELSE NoneInt,
     problems |-> r.problems]

\* fetch_detailed_contest_info: [found, info, attempts]; found = FALSE is
\* the None returned after MAX_RETRIES failed attempts.
RECURSIVE DetailAttempt(_, _, _)
DetailAttempt(slug, net, attempt) ==
    IF attempt > DETECTOR_MAX_RETRIES
    THEN [found |-> FALSE, info |-> NoInfo, attempts |-> DETECTOR_MAX_RETRIES]
    ELSE IF net[attempt].ok
    THEN [found |-> TRUE, info |-> ContestInfo(slug, net[attempt]), attempts |-> attempt]
    ELSE DetailAttempt(slug, net, attempt + 1)

\* A variant of fetch_detailed_contest_info: a failed last attempt is
\* followed by one more request.
fetch_detailed_contest_info_OneMore(slug, net) ==
    LET r == DetailAttempt(slug, net, 1) IN
    IF r.found THEN r ELSE [r EXCEPT !.attempts = @ + 1]

fetch_detailed_contest_info(slug, net) == DetailAttempt(slug, net, 1)

\* The API's answers for contest number i of a family.  A world names, per
\* family, a block of consecutive numbers from top downward with their
\* answers; every other number does not exist.
NotFoundNet == <<ProbeErr, ProbeErr, ProbeErr>>
AnswersFor(world, family, i) ==
    LET b == world[family] IN
    IF i <= b.top /\ i > b.top - Len(b.nets) THEN b.nets[b.top - i + 1] ELSE NotFoundNet

\* MUTANT of RecentMatch: a contest ending at current_time counts as ended.
RecentMatch_EndInclusive(include_upcoming, end_time, current_time) ==
    IF ~include_upcoming
    THEN IF ~end_time.some THEN "TypeError"
         ELSE IF end_time.v <= current_time THEN "match" ELSE "skip"
    ELSE "match"

\* Lines 199-208 (and 223-232): the test of a candidate that exists and has
\* a start_time.  end_time < current_time raises TypeError for end_time None.
RecentMatch(include_upcoming, end_time, current_time) ==
    IF ~include_upcoming
    THEN IF ~end_time.some THEN "TypeError"
         ELSE IF end_time.v < current_time THEN "match" ELSE "skip"
    ELSE "match"

NoWindow == [some |-> FALSE, info |-> NoInfo]
SomeWindow(info) == [some |-> TRUE, info |-> info]

\* MUTANT of RecentScan: the loop has no break; a later match replaces an
\* earlier one and every candidate is probed.
RECURSIVE RecentScan_NoBreak(_, _, _, _, _, _, _, _)
RecentScan_NoBreak(family, i, stop, world, include_upcoming, current_time, probes, requests) ==
    IF i <= stop
    THEN [raised |-> FALSE, window |-> NoWindow, probes |-> probes, requests |-> requests]
    ELSE LET f == fetch_detailed_contest_info(SlugOf(family, i), AnswersFor(world, family, i))
             m == RecentMatch(include_upcoming, f.info.end_time, current_time)
             rest == RecentScan_NoBreak(family, i - 1, stop, world, include_upcoming,
                                        current_time, probes + 1, requests + f.attempts)
         IN
         IF f.found /\ f.info.start_time.some /\ m = "TypeError"
         THEN [raised |-> TRUE, window |-> NoWindow,
               probes |-> probes + 1, requests |-> requests + f.attempts]
         ELSE IF f.found /\ f.info.start_time.some /\ m = "match" /\ ~rest.raised
                 /\ ~rest.window.some
         THEN [rest EXCEPT !.window = SomeWindow(f.info)]
         ELSE rest

\* MUTANT of RecentScan: a candidate that is not found ends the scan.
RECURSIVE RecentScan_StopsAtNotFound(_, _, _, _, _, _, _, _)
RecentScan_StopsAtNotFound(family, i, stop, world, include_upcoming, current_time, probes, requests) ==
    IF i <= stop
    THEN [raised |-> FALSE, window |-> NoWindow, probes |-> probes, requests |-> requests]
    ELSE LET f == fetch_detailed_contest_info(SlugOf(family, i), AnswersFor(world, family, i))
             m == RecentMatch(include_upcoming, f.info.end_time, current_time)
         IN
         IF f.found /\ f.info.start_time.some
         THEN CASE m = "TypeError" ->
                     [raised |-> TRUE, window |-> NoWindow,
                      probes |-> probes + 1, requests |-> requests + f.attempts]
                [] m = "match" ->
                     [raised |-> FALSE, window |-> SomeWindow(f.info),
                      probes |-> probes + 1, requests |-> requests + f.attempts]
                [] OTHER ->
                     RecentScan_StopsAtNotFound(family, i - 1, stop, world, include_upcoming,
                                                current_time, probes + 1, requests + f.attempts)
         ELSE IF ~f.found
         THEN [raised |-> FALSE, window |-> NoWindow,
               probes |-> probes + 1, requests |-> requests + f.attempts]
         ELSE RecentScan_StopsAtNotFound(family, i - 1, stop, world, include_upcoming,
                                         current_time, probes + 1, requests + f.attempts)

\* for i in range(start, stop, -1): the scan from candidate i on.
\* [raised, window, probes, requests]
RECURSIVE RecentScan(_, _, _, _, _, _, _, _)
RecentScan(family, i, stop, world, include_upcoming, current_time, probes, requests) ==
    IF i <= stop
    THEN [raised |-> FALSE, window |-> NoWindow, probes |-> probes, requests |-> requests]
    ELSE LET f == fetch_detailed_contest_info(SlugOf(family, i), AnswersFor(world, family, i))
             m == RecentMatch(include_upcoming, f.info.end_time, current_time)
         IN
         IF f.found /\ f.info.start_time.some
         THEN CASE m = "TypeError" ->
                     [raised |-> TRUE, window |-> NoWindow,
                      probes |-> probes + 1, requests |-> requests + f.attempts]
                [] m = "match" ->
                     [raised |-> FALSE, window |-> SomeWindow(f.info),
                      probes |-> probes + 1, requests |-> requests + f.attempts]
                [] OTHER ->
                     RecentScan(family, i - 1, stop, world, include_upcoming, current_time,
                                probes + 1, requests + f.attempts)
         ELSE RecentScan(family, i - 1, stop, world, include_upcoming, current_time,
                         probes + 1, requests + f.attempts)

WeeklyStart(t) == Max(estimate_current_contest_numbers(t).weekly, WEEKLY_FLOOR)
BiweeklyStart(t) == Max(estimate_current_contest_numbers(t).biweekly, BIWEEKLY_FLOOR)

NoScan == [raised |-> FALSE, window |-> NoWindow, probes |-> 0, requests |-> 0]

\* get_recent_contests at time t: the weekly scan, then the biweekly scan;
\* an exception of the weekly scan leaves the function.
get_recent_contests(include_upcoming, t, world) ==
    LET w == RecentScan("weekly", WeeklyStart(t), WeeklyStart(t) - WEEKLY_SCAN,
                        world, include_upcoming, t, 0, 0)
        b == IF w.raised THEN NoScan
             ELSE RecentScan("biweekly", BiweeklyStart(t), BiweeklyStart(t) - BIWEEKLY_SCAN,
                             world, include_upcoming, t, 0, 0)
    IN [raised |-> w.raised \/ b.raised,
        weekly |-> IF w.raised \/ b.raised THEN NoWindow ELSE w.window,
        biweekly |-> IF w.raised \/ b.raised THEN NoWindow ELSE b.window,
        probes |-> [weekly |-> w.probes, biweekly |-> b.probes],
        requests |-> [weekly |-> w.requests, biweekly |-> b.requests]]

\* get_upcoming_contests: the ranges start a little under the estimates and
\* are scanned upward.
UP_WEEKLY_BACK == 2
UP_BIWEEKLY_BACK == 1
UP_WEEKLY_SCAN == 10
UP_BIWEEKLY_SCAN == 8
UpWeeklyStart(t) == Max(estimate_current_contest_numbers(t).weekly - UP_WEEKLY_BACK, WEEKLY_FLOOR)
UpBiweeklyStart(t) ==
    Max(estimate_current_contest_numbers(t).biweekly - UP_BIWEEKLY_BACK, BIWEEKLY_FLOOR)

\* MUTANT of UpcomingScan: a candidate starting at current_time counts as
\* upcoming.
RECURSIVE UpcomingScan_StartInclusive(_, _, _, _, _, _, _)
UpcomingScan_StartInclusive(family, i, stop, world, current_time, probes, requests) ==
    IF i >= stop
    THEN [raised |-> FALSE, window |-> NoWindow, probes |-> probes, requests |-> requests]
    ELSE LET f == fetch_detailed_contest_info(SlugOf(family, i), AnswersFor(world, family, i)) IN
         IF f.found /\ f.info.start_time.some /\ f.info.start_time.v >= current_time
         THEN [raised |-> FALSE, window |-> SomeWindow(f.info),
               probes |-> probes + 1, requests |-> requests + f.attempts]
         ELSE UpcomingScan_StartInclusive(family, i + 1, stop, world, current_time,
                                          probes + 1, requests + f.attempts)

\* for i in range(start, end): the scan from candidate i on, lines 261-271
\* and 278-288.  [raised, window, probes, requests]
RECURSIVE UpcomingScan(_, _, _, _, _, _, _)
UpcomingScan(family, i, stop, world, current_time, probes, requests) ==
    IF i >= stop
    THEN [raised |-> FALSE, window |-> NoWindow, probes |-> probes, requests |-> requests]
    ELSE LET f == fetch_detailed_contest_info(SlugOf(family, i), AnswersFor(world, family, i)) IN
         IF f.found /\ f.info.start_time.some /\ f.info.start_time.v > current_time
         THEN [raised |-> FALSE, window |-> SomeWindow(f.info),
               probes |-> probes + 1, requests |-> requests + f.attempts]
         ELSE UpcomingScan(family, i + 1, stop, world, current_time,
                           probes + 1, requests + f.attempts)

\* get_upcoming_contests at time t: the weekly scan, then the biweekly scan
get_upcoming_contests(t, world) ==
    LET w == UpcomingScan("weekly", UpWeeklyStart(t), UpWeeklyStart(t) + UP_WEEKLY_SCAN,
                          world, t, 0, 0)
        b == UpcomingScan("biweekly", UpBiweeklyStart(t), UpBiweeklyStart(t) + UP_BIWEEKLY_SCAN,
                          world, t, 0, 0)
    IN [raised |-> FALSE,
        weekly |-> w.window,
        biweekly |-> b.window,
        probes |-> [weekly |-> w.probes, biweekly |-> b.probes],
        requests |-> [weekly |-> w.requests, biweekly |-> b.requests]]

(***************************************************************************)
(* Inputs of one resolution                                                *)
(***************************************************************************)
BlockLen == 2       \* contest numbers per family the API has answers for

\* Sunday 2025-12-07 09:34:05 IST, and 2024-01-01 00:00:00 UTC, when both
\* estimates lie under the safety floors.
ResolveTimes == {1765080245, 1704067200}

FourProblems == <<"p1", "p2", "p3", "p4">>

\* The answers for one contest number at time t: it does not exist, it
\* ended (a second ago, this very second), it is running, it
\* is upcoming, it has no start_time, a start_time of 0, or no duration;
\* and an answer that comes after failed attempts.
CandidateNets(t) ==
    LET ended == ProbeOk(SomeInt(t - 5640), SomeInt(5400), "Contest", FourProblems) IN
    {NotFoundNet,
     <<ProbeOk(SomeInt(t - 5401), SomeInt(5400), "Contest", FourProblems)>>,
     <<ProbeOk(SomeInt(t - 5400), SomeInt(5400), "Contest", FourProblems)>>,
     <<ProbeOk(SomeInt(t - 60), SomeInt(5400), "Contest", FourProblems)>>,
     <<ProbeOk(SomeInt(t + 600000), SomeInt(5400), "Contest", <<>>)>>,
     <<ProbeOk(NoneInt, NoneInt, "", <<>>)>>,
     <<ProbeOk(SomeInt(0), SomeInt(5400), "Contest", FourProblems)>>,
     <<ProbeOk(SomeInt(t - 6000), NoneInt, "Contest", FourProblems)>>,
     <<ProbeErr, ProbeErr, ended>>}

RECURSIVE Tuples(_, _)
Tuples(S, n) ==
    IF n = 0 THEN {<<>>} ELSE {Append(h, x) : h \in Tuples(S, n - 1), x \in S}

Block(top, nets) == [top |-> top, nets |-> nets]

\* The blocks of a family whose scan starts at number start and probes
\* scan numbers: at the top of the scanned range and at its bottom, one
\* number reaching out of it on either side.
Blocks(t, start, scan) ==
    {Block(top, nets) :
        top \in {start + 1, start, start - scan + BlockLen, start - scan + BlockLen - 1},
        nets \in Tuples(CandidateNets(t), BlockLen)}

\* The other family: nothing exists, the first candidate has ended, or the
\* first candidate is running and the second has ended.
PlainBlocks(t, start) ==
    {Block(start, <<>>),
     Block(start, <<<<ProbeOk(SomeInt(t - 5640), SomeInt(5400), "Contest", FourProblems)>>>>),
     Block(start, << <<ProbeOk(SomeInt(t - 60), SomeInt(5400), "Contest", FourProblems)>>,
                     <<ProbeOk(SomeInt(t - 5640), SomeInt(5400), "Contest", FourProblems)>> >>)}

Worlds(t) ==
    {[weekly |-> w, biweekly |-> b] :
        w \in Blocks(t, WeeklyStart(t), WEEKLY_SCAN), b \in PlainBlocks(t, BiweeklyStart(t))}
    \cup {[weekly |-> w, biweekly |-> b] :
        w \in PlainBlocks(t, WeeklyStart(t)), b \in Blocks(t, BiweeklyStart(t), BIWEEKLY_SCAN)}

\* The worlds of a call of get_upcoming_contests: the block of one family
\* lies on the first numbers of its range or reaches over its last number;
\* the other family has nothing, or its first candidate is upcoming.
UpBlocks(t, start, scan) ==
    {Block(top, nets) :
        top \in {start + BlockLen - 1, start + scan},
        nets \in Tuples(CandidateNets(t) \cup
                           {<<ProbeOk(SomeInt(t), SomeInt(5400), "Contest", FourProblems)>>},
                        BlockLen)}

UpPlainBlocks(t, start) ==
    {Block(start, <<>>),
     Block(start, <<<<ProbeOk(SomeInt(t + 600000), SomeInt(5400), "Contest", FourProblems)>>>>)}

UpWorlds(t) ==
    {[weekly |-> w, biweekly |-> b] :
        w \in UpBlocks(t, UpWeeklyStart(t), UP_WEEKLY_SCAN),
        b \in UpPlainBlocks(t, UpBiweeklyStart(t))}
    \cup {[weekly |-> w, biweekly |-> b] :
        w \in UpPlainBlocks(t, UpWeeklyStart(t)),
        b \in UpBlocks(t, UpBiweeklyStart(t), UP_BIWEEKLY_SCAN)}

NoWorld == [weekly |-> Block(0, <<>>), biweekly |-> Block(0, <<>>)]
NoResolution ==
    [raised |-> FALSE, weekly |-> NoWindow, biweekly |-> NoWindow,
     probes |-> [weekly |-> 0, biweekly |-> 0], requests |-> [weekly |-> 0, biweekly |-> 0]]

(***************************************************************************)
(* SpecResolve: one call of get_recent_contests                            *)
(***************************************************************************)
RsInit ==
    /\ rs_pc = "call"
    /\ rs_now = 0
    /\ rs_include_upcoming = FALSE
    /\ rs_world = NoWorld
    /\ rs_result = NoResolution

\* The call: the time, the argument and what the API answers are the inputs.
Resolve ==
    /\ rs_pc = "call"
    /\ \E t \in ResolveTimes, iu \in BOOLEAN :
          \E world \in Worlds(t) :
              /\ rs_now' = t
              /\ rs_include_upcoming' = iu
              /\ rs_world' = world
              /\ rs_result' = get_recent_contests(iu, t, world)
    /\ rs_pc' = "done"
    /\ UNCHANGED <<ev_vars, sc_vars, pl_vars, sh_vars>>

\* A call of get_upcoming_contests; rs_pc tells the two calls apart.
Upcoming ==
    /\ rs_pc = "call"
    /\ \E t \in ResolveTimes :
          \E world \in UpWorlds(t) :
              /\ rs_now' = t
              /\ rs_world' = world
              /\ rs_result' = get_upcoming_contests(t, world)
    /\ rs_include_upcoming' = FALSE
    /\ rs_pc' = "up_done"
    /\ UNCHANGED <<ev_vars, sc_vars, pl_vars, sh_vars>>

RsNext ==
    \/ Resolve
    \/ Upcoming

(***************************************************************************)
(* scheduler.py: ContestStatusTracker                                      *)
(*                                                                         *)
(* status is [processed_contests, last_stats_update]: the keys of the      *)
(* processed_contests dictionary, and the date of the last stats update    *)
(* as the number of the local day (-1: the key is not there).              *)
(* The file is absent, unreadable as JSON ("corrupt"), or holds a status.  *)
(***************************************************************************)
EmptyStatus == [processed_contests |-> {}, last_stats_update |-> -1]
NoFile == [kind |-> "absent", status |-> EmptyStatus]
CorruptFile == [kind |-> "corrupt", status |-> EmptyStatus]
FileOf(status) == [kind |-> "json", status |-> status]

\* MUTANT of _load_status: a failure of the read is not noticed and what
\* the file held is used.
_load_status_IgnoresError(disk, readable) ==
    IF disk.kind = "absent" THEN EmptyStatus ELSE disk.status

\* MUTANT of _load_status: the file is never read.
_load_status_NeverReads(disk, readable) == EmptyStatus

\* _load_status: readable = FALSE stands for an exception of open/json.load.
_load_status(disk, readable) ==
    IF disk.kind = "absent" THEN EmptyStatus
    ELSE IF disk.kind = "corrupt" \/ ~readable THEN EmptyStatus
    ELSE disk.status

\* How the read went: there was no file, open or json.load raised, or the
\* status was read.
LoadOutcome(disk, readable) ==
    IF disk.kind = "absent" THEN "none"
    ELSE IF disk.kind = "corrupt" \/ ~readable THEN "failed"
    ELSE "read"

\* _save_status: the file after the call.  outcome is "ok", "open_failed"
\* (open raised: the file is as it was) or "dump_failed" (the file was
\* truncated by open and json.dump raised: it holds no whole JSON).
SaveOutcomes == {"ok", "open_failed", "dump_failed"}
_save_status(status, disk, outcome) ==
    CASE outcome = "ok" -> FileOf(status)
      [] outcome = "open_failed" -> disk
      [] OTHER -> CorruptFile

\* MUTANT of is_processed: no slug is ever found.
is_processed_Never(status, slug) == FALSE

is_processed(status, slug) == slug \in status.processed_contests

\* datetime.now().strftime('%Y-%m-%d'): the local day
Today(t) == LocalNow(t) \div SecondsPerDay

\* MUTANT of is_stats_updated_today: the date is never found.
is_stats_updated_today_Never(status, t) == FALSE

is_stats_updated_today(status, t) == status.last_stats_update = Today(t)

\* A variant of mark_stats_updated: the status is built anew with the date.
mark_stats_updated_Resets(status, t) ==
    [processed_contests |-> {}, last_stats_update |-> Today(t)]

\* The in-memory effect of mark_stats_updated and of mark_processed
mark_stats_updated(status, t) == [status EXCEPT !.last_stats_update = Today(t)]
mark_processed(status, slug) == [status EXCEPT !.processed_contests = @ \cup {slug}]

(***************************************************************************)
(* scheduler.py: ContestScheduler, the trigger times                       *)
(***************************************************************************)
\* get_current_time_ist: UTC + 5 h 30 min, as seconds
IstSeconds(t) == t + 5 * 3600 + 30 * 60
\* datetime.weekday(): Monday is 0; 1970-01-01 was a Thursday
IstWeekday(t) == ((IstSeconds(t) \div SecondsPerDay) + 3) % 7
IstHour(t) == (IstSeconds(t) % SecondsPerDay) \div 3600
IstMinute(t) == (IstSeconds(t) % 3600) \div 60
\* datetime.now().second
LocalSecond(t) == LocalNow(t) % 60

\* A variant of is_weekly_trigger_time without the upper end of the minutes
is_weekly_trigger_time_NoUpperMinute(t) ==
    IstWeekday(t) = 6 /\ IstHour(t) = 9 /\ IstMinute(t) >= 34

is_weekly_trigger_time(t) ==
    IstWeekday(t) = 6 /\ IstHour(t) = 9 /\ IstMinute(t) >= 34 /\ IstMinute(t) <= 35

\* The day and time test of is_biweekly_trigger_time, lines 150-154
BiweeklySlot(t) ==
    IstWeekday(t) = 5 /\ IstHour(t) = 21 /\ IstMinute(t) >= 34 /\ IstMinute(t) <= 35

BAND_MIN == 240
BAND_MAX == 7200

\* MUTANT of BiweeklyConfirmed: any biweekly contest found will do.
BiweeklyConfirmed_NoBand(recent, t) ==
    /\ ~recent.raised
    /\ recent.biweekly.some

\* Lines 156-168: recent is the result of get_recent_contests
BiweeklyConfirmed(recent, t) ==
    /\ ~recent.raised
    /\ recent.biweekly.some
    /\ LET contest_end == recent.biweekly.info.end_time.v IN
       BAND_MIN <= t - contest_end /\ t - contest_end <= BAND_MAX

is_daily_stats_trigger_time(status, t) ==
    IstHour(t) = 12 /\ IstMinute(t) >= 0 /\ IstMinute(t) <= 1
        /\ ~is_stats_updated_today(status, t)

(***************************************************************************)
(* The world of the scheduler: the week of 2025-12-06.  Biweekly contest   *)
(* 172 runs Saturday 20:00-21:30 IST, weekly contest 518 Sunday 08:00-     *)
(* 09:30 IST; the API may also be down, or answer without a duration or   *)
(* without the questions.                                                  *)
(***************************************************************************)
MaxIterations == 3      \* polling loop iterations of one process
MaxWrites == 2          \* completed sheet writes per contest, in all

SAT_2000_IST == 1765031400
SUN_0800_IST == 1765074600
CONTEST_DURATION == 5400

\* Saturday 21:34:00, Sunday 09:33:55, 09:34:05 and 09:35:00, Sunday
\* 12:00:05, all IST.
StartTimes == {1765037040, 1765080235, 1765080245, 1765080300, 1765089005}

WeeklyNet == <<ProbeOk(SomeInt(SUN_0800_IST), SomeInt(CONTEST_DURATION),
                       "Weekly Contest 518", FourProblems)>>
BiweeklyNet == <<ProbeOk(SomeInt(SAT_2000_IST), SomeInt(CONTEST_DURATION),
                         "Biweekly Contest 172", FourProblems)>>

\* Biweekly contest 171, two weeks before
StaleBiweeklyNet == <<ProbeOk(SomeInt(SAT_2000_IST - 14 * SecondsPerDay),
                              SomeInt(CONTEST_DURATION),
                              "Biweekly Contest 171", FourProblems)>>

SchedWorlds(t) ==
    {[weekly |-> Block(WeeklyStart(t), <<WeeklyNet>>),
      biweekly |-> Block(BiweeklyStart(t), <<BiweeklyNet>>)],
     [weekly |-> Block(WeeklyStart(t), <<>>),
      biweekly |-> Block(BiweeklyStart(t), <<>>)],
     [weekly |-> Block(WeeklyStart(t),
                       <<<<ProbeOk(SomeInt(SUN_0800_IST), NoneInt, "", <<>>)>>>>),
      biweekly |-> Block(BiweeklyStart(t), <<BiweeklyNet>>)],
     [weekly |-> Block(WeeklyStart(t),
                       <<<<ProbeOk(SomeInt(SUN_0800_IST), SomeInt(CONTEST_DURATION),
                                   "Weekly Contest 518", <<>>)>>>>),
      biweekly |-> Block(BiweeklyStart(t), <<>>)]}

\* What the API may answer while is_biweekly_trigger_time resolves: as
\* above, or with no answer for the biweekly contest of the week, so that
\* the most recent one the scan finds is the one before.
ConfirmWorlds(t) ==
    SchedWorlds(t)
    \cup {[weekly |-> Block(WeeklyStart(t), <<WeeklyNet>>),
           biweekly |-> Block(BiweeklyStart(t), <<NotFoundNet, StaleBiweeklyNet>>)]}

\* The rows read_students returns, and what the submissions API answers
\* for one of them: a record inside the weekly contest, an unknown
\* identity, or a failure of every attempt.
Students == <<"alice", "bob">>
InWeekly == <<"1", "7", "6", "5", "0", "7", "6", "0", "0", "0">>
AcceptedNet == <<Answer(<<Sub(Str("p1"), TsStr(InWeekly), Str("Accepted"))>>)>>
StudentNets ==
    {AcceptedNet,
     <<Answer(<<>>)>>,
     <<NetFail("timeout"), NetFail("reqerr"), NetFail("timeout")>>}

\* The answers for the class, student by student: any of the three for the
\* first student, the record for the last.
ClassAnswers ==
    {t \in Tuples(StudentNets, Len(Students)) : t[Len(Students)] = AcceptedNet}

\* The seconds the evaluation of the class takes: the requests, and the
\* half second of sleep between two students.
EvalSeconds == {10}

\* every attempt of fetch_user_submissions for the answers net fails
FetchFails(net) ==
    /\ Len(net) >= MAX_RETRIES
    /\ \A k \in 1..MAX_RETRIES : net[k].kind \in {"timeout", "reqerr"}

\* MUTANT of EvaluateStudents: the loop ends at the first student whose
\* history could not be fetched.
RECURSIVE EvaluateStudents_StopsAtFailure(_, _, _)
EvaluateStudents_StopsAtFailure(contest, nets, i) ==
    IF i > Len(nets) THEN [raised |-> FALSE, results |-> <<>>, attempts |-> 0]
    ELSE LET r == evaluate_student_submissions(
                      Args(SomeList(contest.problems), contest.start_time, contest.end_time),
                      <<>>, nets[i])
             rest == IF FetchFails(nets[i])
                     THEN [raised |-> FALSE, results |-> <<>>, attempts |-> 0]
                     ELSE EvaluateStudents_StopsAtFailure(contest, nets, i + 1)
         IN
         IF r.result.raised \/ rest.raised
         THEN [raised |-> TRUE, results |-> <<>>, attempts |-> 0]
         ELSE [raised |-> FALSE,
               results |-> <<r.result.value>> \o rest.results,
               attempts |-> r.attempts + rest.attempts]

\* A variant of EvaluateStudents: a student whose identity is unknown gets
\* no entry in the results.
RECURSIVE EvaluateStudents_SkipsUnknown(_, _, _)
EvaluateStudents_SkipsUnknown(contest, nets, i) ==
    IF i > Len(nets) THEN [raised |-> FALSE, results |-> <<>>, attempts |-> 0]
    ELSE LET r == evaluate_student_submissions(
                      Args(SomeList(contest.problems), contest.start_time, contest.end_time),
                      <<>>, nets[i])
             rest == EvaluateStudents_SkipsUnknown(contest, nets, i + 1)
         IN
         IF r.result.raised \/ rest.raised
         THEN [raised |-> TRUE, results |-> <<>>, attempts |-> 0]
         ELSE [raised |-> FALSE,
               results |-> IF r.result.value = "INVALID ID" THEN rest.results
                           ELSE <<r.result.value>> \o rest.results,
               attempts |-> r.attempts + rest.attempts]

\* The for loop of lines 248-280 over students from index i on:
\* [raised, results, attempts]
RECURSIVE EvaluateStudents(_, _, _)
EvaluateStudents(contest, nets, i) ==
    IF i > Len(nets) THEN [raised |-> FALSE, results |-> <<>>, attempts |-> 0]
    ELSE LET r == evaluate_student_submissions(
                      Args(SomeList(contest.problems), contest.start_time, contest.end_time),
                      <<>>, nets[i])
             rest == EvaluateStudents(contest, nets, i + 1)
         IN
         IF r.result.raised \/ rest.raised
         THEN [raised |-> TRUE, results |-> <<>>, attempts |-> 0]
         ELSE [raised |-> FALSE,
               results |-> <<r.result.value>> \o rest.results,
               attempts |-> r.attempts + rest.attempts]

(***************************************************************************)
(* The scheduler process                                                   *)
(***************************************************************************)
NoRun == [slug |-> "", title |-> "", results |-> <<>>, answers |-> <<>>, ret |-> ""]

\* MUTANT of PhaseAfter: the occurrence is marked before the results are
\* written.
PhaseAfter_MarkFirst(phase) ==
    CASE phase = "evaluate" -> "pc_mark"
      [] phase = "pc_mark" -> "pc_write"
      [] OTHER -> "return"

\* The order of process_contest: evaluation (steps 1-3), the sheet write
\* (step 4), mark_processed and the backup, return.
PhaseAfter(phase) ==
    CASE phase = "evaluate" -> "pc_write"
      [] phase = "pc_write" -> "pc_mark"
      [] OTHER -> "return"

\* Where control goes after a phase of the run whose caller continues at ret
Goto(phase, ret) == IF phase = "return" THEN ret ELSE phase

\* The history of the running process: when it started, the times of the
\* passes of the loop that looked at the three conditions, the handlers
\* entered in the current pass, the handlers that failed with the number of
\* the pass they failed in, the launches of the stats job and the calls of
\* process_contest.
NoLog ==
    [started |-> -1, load |-> "none", checks |-> <<>>, evaluated |-> {}, failed |-> {},
     launches |-> <<>>, calls |-> <<>>]
Evaluated(log, handler) == [log EXCEPT !.evaluated = @ \cup {handler}]
Failed(log, handler) == [log EXCEPT !.failed = @ \cup {<<handler, Len(log.checks)>>}]

ScInit ==
    /\ sc_pc = "down"
    /\ sc_now = SAT_2000_IST
    /\ sc_iter = 0
    /\ sc_config = TRUE
    /\ sc_status = EmptyStatus
    /\ sc_disk = NoFile
    /\ sc_recent = NoResolution
    /\ sc_run = NoRun
    /\ sc_writes = [s \in {} |-> 0]
    /\ sc_life_writes = [s \in {} |-> 0]
    /\ sc_completed = [s \in {} |-> 0]
    /\ sc_last_marked = ""
    /\ sc_last_save = "none"
    /\ sc_log = NoLog
    /\ sc_refreshed = -1

Count(f, s) == IF s \in DOMAIN f THEN f[s] ELSE 0
Incremented(f, s) == [x \in DOMAIN f \cup {s} |-> IF x = s THEN Count(f, s) + 1 ELSE f[x]]

\* main: ContestScheduler(config_path) is constructed, the tracker loads the
\* status file; --test selects the one-shot pass, else run() is entered.
Start ==
    /\ sc_pc = "down"
    /\ \E t \in StartTimes, cfg \in BOOLEAN, readable \in BOOLEAN, test \in BOOLEAN :
          /\ t >= sc_now
          /\ sc_now' = t
          /\ sc_config' = cfg
          /\ sc_status' = _load_status(sc_disk, readable)
          /\ sc_pc' = IF test THEN "t_resolve" ELSE "loop"
          /\ sc_log' = [NoLog EXCEPT !.started = t,
                                        !.load = LoadOutcome(sc_disk, readable)]
    /\ sc_iter' = 0
    /\ sc_recent' = NoResolution
    /\ sc_run' = NoRun
    /\ sc_life_writes' = [s \in {} |-> 0]
    /\ sc_last_marked' = ""
    /\ sc_last_save' = "none"
    /\ api_endpoint_index' = 0
    /\ UNCHANGED <<sc_disk, sc_writes, sc_completed, sc_refreshed, ev_call, rs_vars, pl_vars, sh_vars>>

\* The process is gone, and its memory with it; the file and the sheet stay.
ProcessEnds ==
    /\ sc_pc' = "down"
    /\ sc_iter' = 0
    /\ sc_config' = TRUE
    /\ sc_status' = EmptyStatus
    /\ sc_recent' = NoResolution
    /\ sc_run' = NoRun
    /\ sc_life_writes' = [s \in {} |-> 0]
    /\ sc_last_marked' = ""
    /\ sc_last_save' = "none"
    /\ sc_log' = NoLog
    /\ api_endpoint_index' = 0
    /\ UNCHANGED <<sc_now, sc_disk, sc_writes, sc_completed, sc_refreshed, ev_call, rs_vars, pl_vars, sh_vars>>

\* The process is killed or interrupted.
Crash ==
    /\ sc_pc # "down"
    /\ ProcessEnds

\* Step 1: the problems of the contest, or what fetch_contest_problems
\* gives when it has none; <<>> is also a raise of it: either ends the run.
ProblemsFor(contest) ==
    IF contest.problems = <<>> THEN {<<>>, FourProblems} ELSE {contest.problems}

\* A variant of Caught: the exception ends run() and main returns.
Caught_EndsLoop(next) == "exit"

\* MUTANT of Caught: the exception leaves the handler and reaches the
\* except clause of run(), which sleeps and goes on with the next pass.
Caught_Propagates(next) == "sleep"

\* An exception of a handler's work is caught and logged there (lines
\* 311-313, 353-354, 375-376, 403-406): control goes on at next.
Caught(next) == next

\* The handler whose process_contest call returns to ret
HandlerOf(ret) ==
    CASE ret = "biweekly" -> "weekly"
      [] ret = "sleep" -> "biweekly"
      [] ret = "t_biweekly" -> "test_weekly"
      [] OTHER -> "test_biweekly"

\* The entry of the history for a call of process_contest at time t;
\* confirm is the end_time is_biweekly_trigger_time looked at, or -1.
Call(ret, t, contest, confirm) ==
    [by |-> HandlerOf(ret), at |-> t, slug |-> contest.slug,
     end_time |-> contest.end_time.v, confirm |-> confirm]

\* A variant of ProcessContestWith: the processed check comes after the
\* evaluation instead of before the problems.
ProcessContestWith_ChecksLate(contest, ret, class, log) ==
    \E problems \in ProblemsFor(contest), sheet \in {"ok", "error"} :
        IF problems = <<>> \/ ~sc_config \/ sheet = "error"
        THEN /\ sc_pc' = Caught(ret)
             /\ sc_log' = Failed(log, HandlerOf(ret))
             /\ UNCHANGED <<sc_now, sc_run, api_endpoint_index>>
        ELSE \E answers \in class, d \in EvalSeconds :
                LET e == EvaluateStudents([contest EXCEPT !.problems = problems],
                                          answers, 1) IN
                /\ sc_now' = sc_now + d
                /\ api_endpoint_index' = api_endpoint_index + e.attempts
                /\ IF e.raised
                   THEN /\ sc_pc' = Caught(ret)
                        /\ sc_run' = NoRun
                        /\ sc_log' = Failed(log, HandlerOf(ret))
                   ELSE IF is_processed(sc_status, contest.slug)
                   THEN /\ sc_pc' = ret
                        /\ sc_run' = NoRun
                        /\ sc_log' = log
                   ELSE /\ sc_pc' = Goto(PhaseAfter("evaluate"), ret)
                        /\ sc_run' = [slug |-> contest.slug, title |-> contest.title,
                                      results |-> e.results, answers |-> answers,
                                      ret |-> ret]
                        /\ sc_log' = log

\* process_contest(contest) up to the end of step 3, called where control
\* continues at ret: the processed check, the problems, the configuration,
\* the students (sheet tells whether reading them raises) and their
\* evaluation; class is what the submissions API may answer for the
\* students and log the history with the call in it.
ProcessContestWith(contest, ret, class, log) ==
    IF is_processed(sc_status, contest.slug)
    THEN /\ sc_pc' = ret
         /\ sc_log' = log
         /\ UNCHANGED <<sc_now, sc_run, api_endpoint_index>>
    ELSE \E problems \in ProblemsFor(contest), sheet \in {"ok", "error"} :
            IF problems = <<>> \/ ~sc_config \/ sheet = "error"
            THEN /\ sc_pc' = Caught(ret)
                 /\ sc_log' = Failed(log, HandlerOf(ret))
                 /\ UNCHANGED <<sc_now, sc_run, api_endpoint_index>>
            ELSE \E answers \in class, d \in EvalSeconds :
                    LET e == EvaluateStudents([contest EXCEPT !.problems = problems],
                                              answers, 1) IN
                    /\ sc_now' = sc_now + d
                    /\ api_endpoint_index' = api_endpoint_index + e.attempts
                    /\ IF e.raised
                       THEN /\ sc_pc' = Caught(ret)
                            /\ sc_run' = NoRun
                            /\ sc_log' = Failed(log, HandlerOf(ret))
                       ELSE /\ sc_pc' = Goto(PhaseAfter("evaluate"), ret)
                            /\ sc_run' = [slug |-> contest.slug, title |-> contest.title,
                                          results |-> e.results, answers |-> answers,
                                          ret |-> ret]
                            /\ sc_log' = log

\* The call as main and the handlers of the process make it
ProcessContestBegin(contest, ret) ==
    ProcessContestWith(contest, ret, ClassAnswers,
                       [sc_log EXCEPT !.calls = Append(@, Call(ret, sc_now, contest, -1))])

\* Step 4: write_contest_results returns, or raises and the run returns
\* False.
ProcessWrite ==
    /\ sc_pc = "pc_write"
    /\ \/ /\ Count(sc_writes, sc_run.slug) < MaxWrites
          /\ sc_writes' = Incremented(sc_writes, sc_run.slug)
          /\ sc_life_writes' = Incremented(sc_life_writes, sc_run.slug)
          /\ sc_pc' = Goto(PhaseAfter("pc_write"), sc_run.ret)
          /\ sc_run' = IF PhaseAfter("pc_write") = "return" THEN NoRun ELSE sc_run
          /\ sc_completed' = IF PhaseAfter("pc_write") = "return"
                              THEN Incremented(sc_completed, sc_run.slug)
                              ELSE sc_completed
          /\ UNCHANGED sc_log
       \/ /\ sc_pc' = Caught(sc_run.ret)
          /\ sc_run' = NoRun
          /\ sc_log' = Failed(sc_log, HandlerOf(sc_run.ret))
          /\ UNCHANGED <<sc_writes, sc_life_writes, sc_completed>>
    /\ UNCHANGED <<sc_now, sc_iter, sc_config, sc_status, sc_disk, sc_recent,
                   sc_last_marked, sc_last_save, sc_refreshed,
                   ev_vars, rs_vars, pl_vars, sh_vars>>

\* mark_processed(slug), with its _save_status, then _save_results_backup
\* and the return: the backup is written, or its write fails and is logged,
\* or mkdir raises and the run returns False.
ProcessMark ==
    /\ sc_pc = "pc_mark"
    /\ \E outcome \in SaveOutcomes :
          /\ sc_status' = mark_processed(sc_status, sc_run.slug)
          /\ sc_disk' = _save_status(sc_status', sc_disk, outcome)
          /\ sc_last_save' = outcome
    /\ sc_last_marked' = sc_run.slug
    /\ \E backup \in {"ok", "write_failed", "mkdir_raised"} :
          LET next == IF backup = "mkdir_raised" THEN "return" ELSE PhaseAfter("pc_mark") IN
          /\ sc_pc' = Goto(next, sc_run.ret)
          /\ sc_run' = IF next = "return" THEN NoRun ELSE sc_run
          /\ sc_completed' = IF next = "return" /\ backup # "mkdir_raised"
                              THEN Incremented(sc_completed, sc_run.slug)
                              ELSE sc_completed
          /\ sc_log' = IF backup = "mkdir_raised"
                        THEN Failed(sc_log, HandlerOf(sc_run.ret))
                        ELSE sc_log
    /\ UNCHANGED <<sc_now, sc_iter, sc_config, sc_recent, sc_writes, sc_life_writes,
                   sc_refreshed, ev_vars, rs_vars, pl_vars, sh_vars>>

\* A variant of TestPlan: after the two calls main goes on into run().
TestPlan_ThenRun(pc) ==
    CASE pc = "t_resolve" -> "t_weekly"
      [] pc = "t_weekly" -> "t_biweekly"
      [] OTHER -> "loop"

\* main under --test: the resolution, the weekly call, the biweekly call,
\* and the return of main; run() is the other branch of the if.
TestPlan(pc) ==
    CASE pc = "t_resolve" -> "t_weekly"
      [] pc = "t_weekly" -> "t_biweekly"
      [] OTHER -> "exit"

\* main --test: recent = get_recent_contests(); an exception ends the process.
TestResolve ==
    /\ sc_pc = "t_resolve"
    /\ \E world \in SchedWorlds(sc_now) :
          LET recent == get_recent_contests(FALSE, sc_now, world) IN
          IF recent.raised
          THEN ProcessEnds
          ELSE /\ sc_pc' = TestPlan("t_resolve")
               /\ sc_recent' = recent
               /\ UNCHANGED <<sc_now, sc_iter, sc_config, sc_status, sc_disk, sc_run,
                              sc_writes, sc_life_writes, sc_completed, sc_last_marked,
                              sc_last_save, sc_log, sc_refreshed, ev_vars, rs_vars, pl_vars, sh_vars>>

TestWeekly ==
    /\ sc_pc = "t_weekly"
    /\ IF sc_recent.weekly.some
       THEN ProcessContestBegin(sc_recent.weekly.info, TestPlan("t_weekly"))
       ELSE sc_pc' = TestPlan("t_weekly") /\ UNCHANGED <<sc_now, sc_run, api_endpoint_index, sc_log>>
    /\ UNCHANGED <<sc_iter, sc_config, sc_status, sc_disk, sc_recent, sc_writes,
                   sc_life_writes, sc_last_marked, sc_last_save, sc_completed,
                   sc_refreshed, ev_call, rs_vars, pl_vars, sh_vars>>

TestBiweekly ==
    /\ sc_pc = "t_biweekly"
    /\ IF sc_recent.biweekly.some
       THEN ProcessContestBegin(sc_recent.biweekly.info, TestPlan("t_biweekly"))
       ELSE sc_pc' = TestPlan("t_biweekly") /\ UNCHANGED <<sc_now, sc_run, api_endpoint_index, sc_log>>
    /\ UNCHANGED <<sc_iter, sc_config, sc_status, sc_disk, sc_recent, sc_writes,
                   sc_life_writes, sc_last_marked, sc_last_save, sc_completed,
                   sc_refreshed, ev_call, rs_vars, pl_vars, sh_vars>>

\* main returns: the process ends.
Exit ==
    /\ sc_pc = "exit"
    /\ ProcessEnds

\* A variant of ChecksNow: every pass of the loop calls the handlers.
ChecksNow_EveryPass(t) == TRUE

\* if now.second < 10
ChecksNow(t) == LocalSecond(t) < 10

\* run(): one pass of the while loop up to the test of now.second
LoopTop ==
    /\ sc_pc = "loop"
    /\ sc_pc' = IF ChecksNow(sc_now) THEN "daily" ELSE "sleep"
    /\ sc_log' = IF ChecksNow(sc_now)
                  THEN [sc_log EXCEPT !.checks = Append(@, sc_now)]
                  ELSE sc_log
    /\ UNCHANGED <<sc_now, sc_iter, sc_config, sc_status, sc_disk, sc_recent, sc_run,
                   sc_writes, sc_life_writes, sc_last_marked, sc_last_save, sc_completed,
                   sc_refreshed, ev_vars, rs_vars, pl_vars, sh_vars>>

\* A variant of StatsJobMarks: the date is marked whatever the exit code.
StatsJobMarks_AnyExit(sub) == sub \in {"zero", "nonzero"}

\* if result.returncode == 0: mark_stats_updated()
StatsJobMarks(sub) == sub = "zero"

\* try_update_daily_stats: the subprocess takes d seconds and ends with
\* code 0, with another code, times out or raises; on code 0 the date is
\* marked and saved.
TryUpdateDailyStats ==
    /\ sc_pc = "daily"
    /\ IF is_daily_stats_trigger_time(sc_status, sc_now)
       THEN \E sub \in {"zero", "nonzero", "timeout", "exception"}, d \in {0, 10} :
               /\ sc_now' = sc_now + d
               /\ IF StatsJobMarks(sub)
                  THEN \E outcome \in SaveOutcomes :
                          /\ sc_status' = mark_stats_updated(sc_status, sc_now')
                          /\ sc_disk' = _save_status(sc_status', sc_disk, outcome)
                          /\ sc_last_save' = outcome
                          /\ sc_refreshed' = Today(sc_now')
                          /\ sc_pc' = "weekly"
                          /\ sc_log' = [Evaluated(sc_log, "daily") EXCEPT
                                           !.launches = Append(@, [at |-> sc_now, ok |-> sub = "zero"])]
                  ELSE /\ sc_pc' = Caught("weekly")
                       /\ sc_log' = [Failed(Evaluated(sc_log, "daily"), "daily") EXCEPT
                                        !.launches = Append(@, [at |-> sc_now, ok |-> FALSE])]
                       /\ UNCHANGED <<sc_status, sc_disk, sc_last_save, sc_refreshed>>
       ELSE /\ sc_pc' = "weekly"
            /\ sc_log' = Evaluated(sc_log, "daily")
            /\ UNCHANGED <<sc_now, sc_status, sc_disk, sc_last_save, sc_refreshed>>
    /\ UNCHANGED <<sc_iter, sc_config, sc_recent, sc_run, sc_writes,
                   sc_life_writes, sc_last_marked, sc_completed,
                   ev_vars, rs_vars, pl_vars, sh_vars>>

\* try_process_weekly
TryProcessWeekly ==
    /\ sc_pc = "weekly"
    /\ LET log == Evaluated(sc_log, "weekly") IN
       IF ~is_weekly_trigger_time(sc_now)
       THEN /\ sc_pc' = "biweekly"
            /\ sc_log' = log
            /\ UNCHANGED <<sc_now, sc_run, api_endpoint_index>>
       ELSE \E world \in SchedWorlds(sc_now) :
               LET recent == get_recent_contests(FALSE, sc_now, world) IN
               IF recent.raised
               THEN /\ sc_pc' = Caught("biweekly")
                    /\ sc_log' = Failed(log, "weekly")
                    /\ UNCHANGED <<sc_now, sc_run, api_endpoint_index>>
               ELSE IF ~recent.weekly.some
               THEN /\ sc_pc' = "biweekly"
                    /\ sc_log' = log
                    /\ UNCHANGED <<sc_now, sc_run, api_endpoint_index>>
               ELSE ProcessContestWith(recent.weekly.info, "biweekly", ClassAnswers,
                        [log EXCEPT !.calls =
                            Append(@, Call("biweekly", sc_now, recent.weekly.info, -1))])
    /\ UNCHANGED <<sc_iter, sc_config, sc_status, sc_disk, sc_recent, sc_writes,
                   sc_life_writes, sc_last_marked, sc_last_save, sc_completed,
                   sc_refreshed, ev_call, rs_vars, pl_vars, sh_vars>>

\* try_process_biweekly: is_biweekly_trigger_time resolves once, the handler
\* resolves again.
TryProcessBiweekly ==
    /\ sc_pc = "biweekly"
    /\ LET log == Evaluated(sc_log, "biweekly") IN
       IF ~BiweeklySlot(sc_now)
       THEN /\ sc_pc' = "sleep"
            /\ sc_log' = log
            /\ UNCHANGED <<sc_now, sc_run, api_endpoint_index>>
       ELSE \E w1 \in ConfirmWorlds(sc_now), w2 \in SchedWorlds(sc_now) :
               LET confirm == get_recent_contests(FALSE, sc_now, w1)
                   recent == get_recent_contests(FALSE, sc_now, w2)
               IN
               IF ~BiweeklyConfirmed(confirm, sc_now)
               THEN /\ sc_pc' = "sleep"
                    /\ sc_log' = log
                    /\ UNCHANGED <<sc_now, sc_run, api_endpoint_index>>
               ELSE IF recent.raised
               THEN /\ sc_pc' = Caught("sleep")
                    /\ sc_log' = Failed(log, "biweekly")
                    /\ UNCHANGED <<sc_now, sc_run, api_endpoint_index>>
               ELSE IF ~recent.biweekly.some
               THEN /\ sc_pc' = "sleep"
                    /\ sc_log' = log
                    /\ UNCHANGED <<sc_now, sc_run, api_endpoint_index>>
               ELSE ProcessContestWith(recent.biweekly.info, "sleep", ClassAnswers,
                        [log EXCEPT !.calls =
                            Append(@, Call("sleep", sc_now, recent.biweekly.info,
                                           confirm.biweekly.info.end_time.v))])
    /\ UNCHANGED <<sc_iter, sc_config, sc_status, sc_disk, sc_recent, sc_writes,
                   sc_life_writes, sc_last_marked, sc_last_save, sc_completed,
                   sc_refreshed, ev_call, rs_vars, pl_vars, sh_vars>>

\* time.sleep(50); the next pass starts with no handler entered
Sleep ==
    /\ sc_pc = "sleep"
    /\ sc_iter < MaxIterations
    /\ sc_now' = sc_now + 50
    /\ sc_iter' = sc_iter + 1
    /\ sc_pc' = "loop"
    /\ sc_log' = [sc_log EXCEPT !.evaluated = {}]
    /\ UNCHANGED <<sc_config, sc_status, sc_disk, sc_recent, sc_run, sc_writes,
                   sc_life_writes, sc_last_marked, sc_last_save, sc_completed,
                   sc_refreshed, ev_vars, rs_vars, pl_vars, sh_vars>>

ScNext ==
    \/ Start
    \/ Crash
    \/ TestResolve
    \/ TestWeekly
    \/ TestBiweekly
    \/ Exit
    \/ LoopTop
    \/ TryUpdateDailyStats
    \/ TryProcessWeekly
    \/ TryProcessBiweekly
    \/ ProcessWrite
    \/ ProcessMark
    \/ Sleep

(***************************************************************************)
(* main.py: the one-shot pipeline                                          *)
(***************************************************************************)
\* What main finds at the configuration path: a file with every field, the
\* same with contest_problems, no file, a file that is not JSON, a file
\* that cannot be opened, a file without some of the required fields.
ConfigFiles == {"ok", "ok_manual", "missing_file", "bad_json", "unreadable", "missing_fields"}

\* load_config then validate_config: TRUE when main goes on to run_pipeline.
\* sys.exit(1) for no file, bad JSON and missing fields; any other error of
\* open is not caught and ends the process as well.
ConfigAccepted(file) == file \in {"ok", "ok_manual"}

\* int(result): defined on the decimal strings only
MaxCount == Len(FourProblems)
IntParses(result) == \E k \in 0..MaxCount : result = ToString(k)

NoWrite == [some |-> FALSE, v |-> <<>>]

PlInit ==
    /\ pl_pc = "idle"
    /\ pl_config = "ok"
    /\ pl_dry_run = FALSE
    /\ pl_answers = <<>>
    /\ pl_problems = <<>>
    /\ pl_results = <<>>
    /\ pl_written = NoWrite
    /\ pl_requests = 0
    /\ pl_failed_at = ""

\* the process exits with status 1 at step
PlAbort(step) ==
    /\ pl_pc' = "done"
    /\ pl_failed_at' = step

\* main: the arguments, load_config, validate_config
PlMain ==
    /\ pl_pc = "idle"
    /\ \E file \in ConfigFiles, dry \in BOOLEAN, answers \in Tuples(StudentNets, Len(Students)) :
          /\ pl_config' = file
          /\ pl_dry_run' = dry
          /\ pl_answers' = answers
          /\ IF ConfigAccepted(file)
             THEN pl_pc' = "problems" /\ pl_failed_at' = ""
             ELSE PlAbort("config")
    /\ pl_problems' = <<>>
    /\ pl_results' = <<>>
    /\ pl_written' = NoWrite
    /\ pl_requests' = 0
    /\ UNCHANGED <<ev_vars, rs_vars, sc_vars, sh_vars>>

\* run_pipeline, step 1: the configured problems, or fetch_contest_problems,
\* which gives the problems, gives none (sys.exit(1)) or raises.
PlProblems ==
    /\ pl_pc = "problems"
    /\ IF pl_config = "ok_manual"
       THEN pl_problems' = FourProblems /\ pl_pc' = "students" /\ UNCHANGED pl_failed_at
       ELSE \E fetched \in {"problems", "none", "raised"} :
               IF fetched = "problems"
               THEN pl_problems' = FourProblems /\ pl_pc' = "students"
                    /\ UNCHANGED pl_failed_at
               ELSE PlAbort("problems") /\ UNCHANGED pl_problems
    /\ UNCHANGED <<pl_config, pl_dry_run, pl_answers, pl_results, pl_written, pl_requests,
                   ev_vars, rs_vars, sc_vars, sh_vars>>

\* step 2: SheetsHandler(...) and read_students return, or raise
PlStudents ==
    /\ pl_pc = "students"
    /\ \E sheet \in {"ok", "error"} :
          IF sheet = "ok"
          THEN pl_pc' = "evaluate" /\ UNCHANGED pl_failed_at
          ELSE PlAbort("students")
    /\ UNCHANGED <<pl_config, pl_dry_run, pl_answers, pl_problems, pl_results, pl_written,
                   pl_requests, ev_vars, rs_vars, sc_vars, sh_vars>>

\* step 3, one pass of the for loop: the result is appended, then counted;
\* a result that is neither 'N/A' nor '0' goes through int(result), whose
\* ValueError leaves run_pipeline and ends the process in main's except.
PlEvaluate ==
    /\ pl_pc = "evaluate"
    /\ LET i == Len(pl_results) + 1
           r == evaluate_student_submissions(
                    Args(SomeList(pl_problems), SomeInt(SUN_0800_IST),
                         SomeInt(SUN_0800_IST + CONTEST_DURATION)),
                    <<>>, pl_answers[i])
       IN
       /\ pl_requests' = pl_requests + r.attempts
       /\ IF r.result.raised
          THEN PlAbort("evaluate") /\ UNCHANGED pl_results
          ELSE /\ pl_results' = Append(pl_results, r.result.value)
               /\ IF r.result.value \notin {"N/A", "0"} /\ ~IntParses(r.result.value)
                  THEN PlAbort("evaluate")
                  ELSE /\ pl_pc' = IF i = Len(Students) THEN "write" ELSE "evaluate"
                       /\ UNCHANGED pl_failed_at
    /\ UNCHANGED <<pl_config, pl_dry_run, pl_answers, pl_problems, pl_written,
                   ev_vars, rs_vars, sc_vars, sh_vars>>

\* step 4: nothing is written in a dry run; else write_contest_results
\* returns or raises.  Step 5 only logs.
PlWrite ==
    /\ pl_pc = "write"
    /\ IF pl_dry_run
       THEN pl_pc' = "done" /\ UNCHANGED <<pl_written, pl_failed_at>>
       ELSE \E sheet \in {"ok", "error"} :
               IF sheet = "ok"
               THEN /\ pl_written' = [some |-> TRUE, v |-> pl_results]
                    /\ pl_pc' = "done"
                    /\ UNCHANGED pl_failed_at
               ELSE PlAbort("write") /\ UNCHANGED pl_written
    /\ UNCHANGED <<pl_config, pl_dry_run, pl_answers, pl_problems, pl_results, pl_requests,
                   ev_vars, rs_vars, sc_vars, sh_vars>>

\* the process has ended; the next one starts
PlExit ==
    /\ pl_pc = "done"
    /\ pl_pc' = "idle"
    /\ pl_config' = "ok"
    /\ pl_dry_run' = FALSE
    /\ pl_answers' = <<>>
    /\ pl_problems' = <<>>
    /\ pl_results' = <<>>
    /\ pl_written' = NoWrite
    /\ pl_requests' = 0
    /\ pl_failed_at' = ""
    /\ UNCHANGED <<ev_vars, rs_vars, sc_vars, sh_vars>>

PlNext ==
    \/ PlMain
    \/ PlProblems
    \/ PlStudents
    \/ PlEvaluate
    \/ PlWrite
    \/ PlExit

(***************************************************************************)
(* Specifications                                                          *)
(***************************************************************************)
(***************************************************************************)
(* sheets_handler.py: the worksheet                                        *)
(***************************************************************************)
MaxRows == 2            \* data rows of the worksheet
MaxSheetWrites == 2     \* calls of write_contest_results on one worksheet

\* A data row as get_all_values gives it: the number of its cells, and the
\* cells of columns B and C (read only when there are three cells).
Row(n, name, id) == [len |-> n, name |-> name, id |-> id]

\* The rows of the model: two students, a row of two cells, a row of
\* blanks, a row with a name and no identity.
RowKinds ==
    {Row(3, "Alice", "al"), Row(3, " Bob", "bo "), Row(2, "Carol", ""),
     Row(3, "", " "), Row(3, "Dave", "")}

\* str.strip() on the cells of the model
Strip(c) ==
    CASE c = " " -> ""
      [] c = " Bob" -> "Bob"
      [] c = "bo " -> "bo"
      [] OTHER -> c

\* read_students, the for loop over data_rows from data row k on; the
\* sheet row of data row k is k + 1.
RECURSIVE ReadRows(_, _)
ReadRows(rows, k) ==
    IF k > Len(rows) THEN <<>>
    ELSE LET name == Strip(rows[k].name)
             leetcode_id == Strip(rows[k].id)
         IN
         IF rows[k].len < 3 THEN ReadRows(rows, k + 1)
         ELSE IF name = "" /\ leetcode_id = "" THEN ReadRows(rows, k + 1)
         ELSE IF leetcode_id = "" THEN ReadRows(rows, k + 1)
         ELSE <<[name |-> name, leetcode_id |-> leetcode_id, row |-> k + 1]>>
              \o ReadRows(rows, k + 1)

read_students(rows) == ReadRows(rows, 1)

\* worksheet.row_values(1): the cells of row 1 up to the last one that is
\* not empty
RECURSIVE row_values(_)
row_values(cells) ==
    IF cells = <<>> THEN <<>>
    ELSE IF cells[Len(cells)] = "" THEN row_values(SubSeq(cells, 1, Len(cells) - 1))
    ELSE cells

\* list.index: the first position of x in l, 0 for ValueError
IndexOf(l, x) ==
    IF \E i \in DOMAIN l : l[i] = x
    THEN CHOOSE i \in DOMAIN l : l[i] = x /\ \A j \in 1..(i - 1) : l[j] # x
    ELSE 0

\* worksheet.update_cell(1, col, value) on row 1
UpdateHeader(cells, col, value) ==
    [i \in 1..Max(Len(cells), col) |->
        IF i = col THEN value ELSE IF i <= Len(cells) THEN cells[i] ELSE ""]

\* A variant of find_or_create_contest_column: the column is always added.
find_or_create_contest_column_AlwaysCreates(header, contest_display_name) ==
    LET header_row == row_values(header) IN
    [col |-> Len(header_row) + 1, created |-> TRUE,
     header |-> UpdateHeader(header, Len(header_row) + 1, contest_display_name)]

\* find_or_create_contest_column: [col, created, header], header being
\* row 1 after the call
find_or_create_contest_column(header, contest_display_name) ==
    LET header_row == row_values(header) IN
    IF IndexOf(header_row, contest_display_name) # 0
    THEN [col |-> IndexOf(header_row, contest_display_name), created |-> FALSE,
          header |-> header]
    ELSE [col |-> Len(header_row) + 1, created |-> TRUE,
          header |-> UpdateHeader(header, Len(header_row) + 1, contest_display_name)]

Alphabet ==
    <<"A", "B", "C", "D", "E", "F", "G", "H", "I", "J", "K", "L", "M",
      "N", "O", "P", "Q", "R", "S", "T", "U", "V", "W", "X", "Y", "Z">>

\* _col_index_to_letter: the letters, first to last
RECURSIVE ColLetters(_, _)
ColLetters(col_index, result) ==
    IF col_index > 0
    THEN ColLetters((col_index - 1) \div 26, <<Alphabet[((col_index - 1) % 26) + 1]>> \o result)
    ELSE result

_col_index_to_letter(col_index) == ColLetters(col_index, <<>>)

\* The column the Sheets API reads from the letters of an A1 range
RECURSIVE ColumnOfLetters(_, _)
ColumnOfLetters(letters, acc) ==
    IF letters = <<>> THEN acc
    ELSE ColumnOfLetters(Tail(letters), 26 * acc + IndexOf(Alphabet, Head(letters)))

\* An A1 cell f"{col_letter}{row_num}" as the API resolves it
A1(col_letter, row_num) == <<ColumnOfLetters(col_letter, 0), row_num>>

\* cells with the value v written at the places of the set targets, given
\* as [cell, value] records
Written(cells, updates) ==
    [c \in DOMAIN cells \cup {u.cell : u \in updates} |->
        IF \E u \in updates : u.cell = c
        THEN (CHOOSE u \in updates : u.cell = c).value
        ELSE cells[c]]

\* write_contest_results after the column is known: students is the
\* optional argument (NoneList when the caller leaves it out).  With the
\* students and as many results, each result goes to its student's row;
\* else the results go to rows 2, 3, ... in order.
WriteCells(cells, col_letter, results, students) ==
    IF students.some /\ students.v # <<>> /\ Len(students.v) = Len(results)
    THEN Written(cells, {[cell |-> A1(col_letter, students.v[i].row), value |-> results[i]] :
                             i \in DOMAIN results})
    ELSE Written(cells, {[cell |-> A1(col_letter, 2 + i - 1), value |-> results[i]] :
                             i \in DOMAIN results})

\* write_contest_results: [col, created, header, cells]
write_contest_results(header, cells, contest_display_name, results, students) ==
    LET f == find_or_create_contest_column(header, contest_display_name) IN
    [col |-> f.col, created |-> f.created, header |-> f.header,
     cells |-> WriteCells(cells, _col_index_to_letter(f.col), results, students)]

\* The outcome computed for a participant, named after the identity
OutcomeOf(leetcode_id) == "outcome of " \o leetcode_id
ResultsFor(students) == [i \in DOMAIN students |-> OutcomeOf(students[i].leetcode_id)]

BaseHeader == <<"S.No", "Name", "Leet Code ID">>
Headers ==
    {BaseHeader, BaseHeader \o <<"Weekly Contest 518">>, BaseHeader \o <<"", "Rating">>}
DisplayNames == {"Weekly Contest 518", "Biweekly Contest 172"}

NoCells == [c \in {} |-> ""]

ShInit ==
    /\ sh_pc = "open"
    /\ sh_rows = <<>>
    /\ sh_header = BaseHeader
    /\ sh_cells = NoCells
    /\ sh_students = <<>>
    /\ sh_calls = <<>>

\* SheetsHandler(...) and read_students(), as process_contest and
\* run_pipeline call them
ShRead ==
    /\ sh_pc = "open"
    /\ \E rows \in SeqsUpTo(RowKinds, MaxRows), header \in Headers :
          /\ sh_rows' = rows
          /\ sh_header' = header
          /\ sh_students' = read_students(rows)
    /\ sh_pc' = "ready"
    /\ UNCHANGED <<sh_cells, sh_calls, ev_vars, rs_vars, sc_vars, pl_vars>>

\* write_contest_results as process_contest calls it (title, results,
\* students) and as run_pipeline calls it (contest_display_name, results)
ShWrite ==
    /\ sh_pc = "ready"
    /\ Len(sh_calls) < MaxSheetWrites
    /\ \E name \in DisplayNames, caller \in {"process_contest", "run_pipeline"} :
          LET results == ResultsFor(sh_students)
              students == IF caller = "process_contest" THEN SomeList(sh_students)
                          ELSE NoneList
              w == write_contest_results(sh_header, sh_cells, name, results, students)
          IN
          /\ sh_header' = w.header
          /\ sh_cells' = w.cells
          /\ sh_calls' = Append(sh_calls, [caller |-> caller, name |-> name, col |-> w.col,
                                            created |-> w.created])
    /\ UNCHANGED <<sh_pc, sh_rows, sh_students, ev_vars, rs_vars, sc_vars, pl_vars>>

ShNext ==
    \/ ShRead
    \/ ShWrite

Init == EvInit /\ RsInit /\ ScInit /\ PlInit /\ ShInit

SpecEval == Init /\ [][EvNext]_vars
SpecResolve == Init /\ [][RsNext]_vars
Spec == Init /\ [][ScNext]_vars
SpecPipeline == Init /\ [][PlNext]_vars
SpecSheet == Init /\ [][ShNext]_vars

(***************************************************************************)
(* The evaluator's claims.  They are stated over the finished call:        *)
(*   EvW  the window the call worked with (supplied, or fetched)           *)
(*   EvF  what fetch_user_submissions answers for the identity             *)
(*   EvS  the activity history of the identity                             *)
(***************************************************************************)
EvDone == ev_pc = "done"
EvW == EffectiveWindow(ev_args, ev_meta_net)
EvF == fetch_user_submissions(ev_sub_net)
EvS == EvF.subs
EvKnown == EvDone /\ ~EvW.early /\ ~EvF.unknown
\* the call worked with a whole window: problems, start_ts and end_ts
EvWindowed == EvKnown /\ EvW.problems.some /\ EvW.start.some /\ EvW.end.some
EvProblems == Range(EvW.problems.v)

\* The record fields as the data model has them: problem_id, timestamp (an
\* integer when the string is one) and status.
HasTimestamp(r) ==
    \/ r.timestamp.tag = "absent"
    \/ r.timestamp.tag = "str" /\ r.timestamp.v # <<>>
         /\ \A i \in 1..Len(r.timestamp.v) : r.timestamp.v[i] \in Digits
TimestampOf(r) ==
    IF r.timestamp.tag = "absent" THEN 0 ELSE DecimalValue(r.timestamp.v, 0)
ProblemOf(r) == IF r.titleSlug.tag = "str" THEN r.titleSlug.v ELSE ""
IsAccepted(r) == r.statusDisplay.tag = "str" /\ r.statusDisplay.v = "Accepted"

\* A qualifying record of history h for the window (problems, start, end)
Qualifying(r, problems, start, end) ==
    /\ ProblemOf(r) \in problems
    /\ HasTimestamp(r)
    /\ start <= TimestampOf(r) /\ TimestampOf(r) <= end

QualifyingOf(h) ==
    {i \in 1..Len(h) : Qualifying(h[i], EvProblems, EvW.start.v, EvW.end.v)}
SolvedProblems(h) ==
    {ProblemOf(h[i]) : i \in {j \in QualifyingOf(h) : IsAccepted(h[j])}}

\* C1: for a known identity and a window W, the call returns the decimal
\* string of k >= 1 exactly when k distinct problems have a qualifying
\* Accepted record, and k is at most the number of distinct problems of W.
C1_SolvedCount ==
    EvWindowed =>
        LET k == Cardinality(SolvedProblems(EvS)) IN
        /\ ~ev_result.raised
        /\ k >= 1 => ev_result.value = ToString(k)
        /\ ev_result.value \notin {"N/A", "0", "INVALID ID"} =>
              k >= 1 /\ ev_result.value = ToString(k)
        /\ k <= Cardinality(EvProblems)

\* two distinct problems solved inside the window
C1_Witness ==
    EvWindowed /\ Cardinality(SolvedProblems(EvS)) = 2 /\ ev_result.value = "2"

\* C2: an unknown identity always evaluates to INVALID ID, whether or not
\* the window was supplied and whether or not the metadata lookup succeeded.
C2_UnknownAlwaysInvalid ==
    (EvDone /\ EvF.unknown) => ev_result = Returned("INVALID ID")

\* C3: a known identity with no qualifying record evaluates to N/A.
C3_NotAttempted ==
    (EvWindowed /\ QualifyingOf(EvS) = {}) => ev_result = Returned("N/A")

\* a non-empty history, every record of it outside the window or the contest
C3_Witness ==
    /\ EvWindowed /\ Len(EvS) = 2 /\ QualifyingOf(EvS) = {}
    /\ \E i \in 1..Len(EvS) : IsAccepted(EvS[i]) /\ ProblemOf(EvS[i]) \in EvProblems
    /\ ev_result = Returned("N/A")

\* C4: a known identity with a qualifying record and no qualifying Accepted
\* record evaluates to 0, whatever Accepted records lie outside the window.
C4_NoneAccepted ==
    (EvWindowed /\ QualifyingOf(EvS) # {} /\ SolvedProblems(EvS) = {})
        => ev_result = Returned("0")

\* a qualifying rejected record beside an Accepted one that does not qualify
C4_Witness ==
    /\ EvWindowed /\ QualifyingOf(EvS) # {} /\ SolvedProblems(EvS) = {}
    /\ \E i \in 1..Len(EvS) : IsAccepted(EvS[i]) /\ i \notin QualifyingOf(EvS)
    /\ ev_result = Returned("0")

\* The call of the state made again for the same identity and window, the
\* API answering with history h instead.
EvAnswered == EvKnown /\ ev_sub_net[EvF.attempts].kind = "ok"
EvalWith(h) ==
    evaluate_student_submissions(
        ev_args, ev_meta_net,
        [ev_sub_net EXCEPT ![EvF.attempts] = [@ EXCEPT !.submission = h]]).result

IndexPermutations(n) == {f \in [1..n -> 1..n] : \A i, j \in 1..n : f[i] = f[j] => i = j}
Permuted(h, f) == [i \in 1..Len(h) |-> h[f[i]]]
Inserted(h, pos, r) == SubSeq(h, 1, pos) \o <<r>> \o SubSeq(h, pos + 1, Len(h))

\* C5: the outcome is the same for every permutation of the history, and
\* is unchanged by a further Accepted record, anywhere in the history, for
\* a problem that already has a qualifying Accepted record.
C5_OrderAndDuplicates ==
    (EvAnswered /\ Len(EvS) > 0) =>
        /\ \A f \in IndexPermutations(Len(EvS)) : EvalWith(Permuted(EvS, f)) = ev_result
        /\ EvWindowed =>
              \A r \in SubUniverse, pos \in 0..Len(EvS) :
                  (IsAccepted(r) /\ ProblemOf(r) \in SolvedProblems(EvS))
                      => EvalWith(Inserted(EvS, pos, r)) = ev_result

\* a rejected record before an Accepted one for the same problem: the order
\* of the two matters to a loop that keeps the last status
C5_Witness ==
    /\ EvWindowed /\ EvAnswered /\ Len(EvS) = 2
    /\ QualifyingOf(EvS) = {1, 2}
    /\ ProblemOf(EvS[1]) = ProblemOf(EvS[2])
    /\ ~IsAccepted(EvS[1]) /\ IsAccepted(EvS[2])
    /\ ev_result = Returned("1")

\* C6: the window test is inclusive at both ends: a record of a contest
\* problem at start_ts or at end_ts qualifies (the outcome is not N/A), and
\* records at start_ts - 1 and end_ts + 1 do not (the outcome is N/A).
C6_InclusiveBounds ==
    (EvWindowed /\ EvW.start.v <= EvW.end.v) =>
        LET timed == {i \in 1..Len(EvS) :
                         ProblemOf(EvS[i]) \in EvProblems /\ HasTimestamp(EvS[i])}
        IN
        /\ (\E i \in timed : TimestampOf(EvS[i]) \in {EvW.start.v, EvW.end.v})
              => (~ev_result.raised /\ ev_result.value # "N/A")
        /\ (\A i \in timed : TimestampOf(EvS[i]) \in {EvW.start.v - 1, EvW.end.v + 1})
              => ev_result = Returned("N/A")

\* one record exactly at end_ts, counted, and one at end_ts + 1, not counted
C6_Witness ==
    /\ EvWindowed /\ Len(EvS) = 2 /\ EvW.start.v < EvW.end.v
    /\ ProblemOf(EvS[1]) \in EvProblems /\ ProblemOf(EvS[2]) \in EvProblems
    /\ ProblemOf(EvS[1]) # ProblemOf(EvS[2])
    /\ IsAccepted(EvS[1]) /\ IsAccepted(EvS[2])
    /\ HasTimestamp(EvS[1]) /\ TimestampOf(EvS[1]) = EvW.end.v
    /\ HasTimestamp(EvS[2]) /\ TimestampOf(EvS[2]) = EvW.end.v + 1
    /\ ev_result = Returned("1")

(***************************************************************************)
(* The resolver's claims, stated over the finished call.                   *)
(***************************************************************************)
RsDone == rs_pc = "done"
Families == {"weekly", "biweekly"}
RsStart(f) == IF f = "weekly" THEN WeeklyStart(rs_now) ELSE BiweeklyStart(rs_now)
RsScan(f) == IF f = "weekly" THEN WEEKLY_SCAN ELSE BIWEEKLY_SCAN
\* the candidate numbers of a scan
RsRange(f) == (RsStart(f) - RsScan(f) + 1)..RsStart(f)

\* What the API tells about contest i: its first answer that is not a
\* failure, among the attempts a probe makes.
RsAnswer(f, i) ==
    LET net == AnswersFor(rs_world, f, i)
        oks == {k \in 1..Len(net) : k <= DETECTOR_MAX_RETRIES /\ net[k].ok}
    IN IF oks = {} THEN ProbeErr ELSE net[CHOOSE k \in oks : \A j \in oks : k <= j]
\* the contest exists, with a start and an end
RsExists(f, i) ==
    RsAnswer(f, i).ok /\ Truthy(RsAnswer(f, i).start_time) /\ Truthy(RsAnswer(f, i).duration)
RsEnd(f, i) == RsAnswer(f, i).start_time.v + RsAnswer(f, i).duration.v
RsEnded(f, i) == RsExists(f, i) /\ RsEnd(f, i) < rs_now

\* C7: with include_upcoming = false no returned window, of either family,
\* ends at or after the time of the resolution; a candidate that exists and
\* has not ended is passed over: the window returned is the highest-numbered
\* candidate of the range that has ended.
C7_RecentCompleted ==
    (RsDone /\ ~rs_include_upcoming /\ ~rs_result.raised) =>
        \A f \in Families :
            LET ended == {i \in RsRange(f) : RsEnded(f, i)} IN
            /\ rs_result[f].some =>
                  /\ rs_result[f].info.end_time.some
                  /\ rs_result[f].info.end_time.v < rs_now
            /\ ended # {} =>
                  /\ rs_result[f].some
                  /\ rs_result[f].info.slug =
                        SlugOf(f, CHOOSE i \in ended : \A j \in ended : j <= i)

\* the first candidate ends this very second, the second one has ended:
\* the second one is returned
C7_Witness ==
    /\ RsDone /\ ~rs_include_upcoming /\ ~rs_result.raised
    /\ \E f \in Families :
          /\ RsExists(f, RsStart(f)) /\ RsEnd(f, RsStart(f)) = rs_now
          /\ RsEnded(f, RsStart(f) - 1)
          /\ rs_result[f].some
          /\ rs_result[f].info.slug = SlugOf(f, RsStart(f) - 1)

\* the candidates a finished scan has probed, from the start downward
RsProbed(f) == (RsStart(f) - rs_result.probes[f] + 1)..RsStart(f)

\* the candidate exists and satisfies the predicate of the scan
RsMatches(f, i) ==
    /\ RsAnswer(f, i).ok /\ Truthy(RsAnswer(f, i).start_time)
    /\ rs_include_upcoming \/ RsEnded(f, i)

\* every attempt of the probe of candidate i fails: not found, or an error
RsFails(f, i) == ~RsAnswer(f, i).ok

\* C19: the scan returns the first candidate in scan order that exists and
\* satisfies the predicate, which is the highest-numbered one, and probes
\* no candidate after it; with no such candidate it returns nothing and
\* has probed the whole range.
C19_FirstMatchEndsScan ==
    (RsDone /\ ~rs_result.raised) =>
        \A f \in Families :
            LET matches == {i \in RsRange(f) : RsMatches(f, i)} IN
            IF matches # {}
            THEN LET first == CHOOSE i \in matches : \A j \in matches : j <= i IN
                 /\ rs_result[f].some
                 /\ rs_result[f].info.slug = SlugOf(f, first)
                 /\ RsProbed(f) = first..RsStart(f)
            ELSE /\ ~rs_result[f].some
                 /\ RsProbed(f) = RsRange(f)

\* the first two candidates have both ended: the first is returned and the
\* second was not probed
C19_Witness ==
    /\ RsDone /\ ~rs_include_upcoming /\ ~rs_result.raised
    /\ \E f \in Families :
          /\ RsEnded(f, RsStart(f)) /\ RsEnded(f, RsStart(f) - 1)
          /\ rs_result[f].some
          /\ rs_result[f].info.slug = SlugOf(f, RsStart(f))
          /\ rs_result.probes[f] = 1

\* C20: a candidate whose probe fails on every attempt is skipped: it is
\* not returned, the scan goes on to the next candidate of the range, the
\* resolution does not fail for it, and the other family is still scanned.
C20_FailedProbeIsSkipped ==
    RsDone =>
        /\ \A f \in Families : \A i \in RsProbed(f) :
              RsFails(f, i) =>
                 /\ rs_result[f].some => rs_result[f].info.slug # SlugOf(f, i)
                 /\ (i - 1) \in RsRange(f) => (i - 1) \in RsProbed(f)
        /\ rs_result.raised =>
              \E f \in Families : \E i \in RsProbed(f) :
                 RsAnswer(f, i).ok /\ ~Truthy(RsAnswer(f, i).duration)
        /\ (\A i \in RsRange("weekly") : RsFails("weekly", i)) =>
              /\ ~rs_result.raised => rs_result.probes["biweekly"] >= 1
              /\ RsMatches("biweekly", RsStart("biweekly")) =>
                    /\ rs_result["biweekly"].some
                    /\ rs_result["biweekly"].info.slug = SlugOf("biweekly", RsStart("biweekly"))

\* the first candidate failed on its three attempts, the second has ended
\* and is returned after four requests
C20_Witness ==
    /\ RsDone /\ ~rs_result.raised
    /\ \E f \in Families :
          /\ AnswersFor(rs_world, f, RsStart(f)) = NotFoundNet
          /\ RsEnded(f, RsStart(f) - 1)
          /\ rs_result[f].some
          /\ rs_result[f].info.slug = SlugOf(f, RsStart(f) - 1)
          /\ rs_result.requests[f] = DETECTOR_MAX_RETRIES + 1

\* a call of get_upcoming_contests has finished
UpDone == rs_pc = "up_done"

\* C21, as stated: no resolution ends in an error, whatever the probes
\* answer: get_recent_contests and get_upcoming_contests return.
C21_ResolutionNeverFails ==
    (RsDone \/ UpDone) => ~rs_result.raised

\* C31: a resolution ends after a bounded number of probes and requests:
\* get_recent_contests probes at most 25 weekly and 15 biweekly numbers,
\* get_upcoming_contests at most 10 and 8, and a probe makes at most 3
\* requests, whatever the probes answer.
C31_ScansAreBounded ==
    /\ RsDone => (rs_result.probes.weekly <= 25 /\ rs_result.probes.biweekly <= 15)
    /\ UpDone => (rs_result.probes.weekly <= 10 /\ rs_result.probes.biweekly <= 8)
    /\ (RsDone \/ UpDone) =>
          \A f \in {"weekly", "biweekly"} :
              rs_result.requests[f] <= 3 * rs_result.probes[f]

\* no candidate of either family answered: both scans of
\* get_recent_contests ran to their ends with three requests a probe
C31_Witness ==
    /\ RsDone
    /\ rs_result.probes = [weekly |-> 25, biweekly |-> 15]
    /\ rs_result.requests = [weekly |-> 75, biweekly |-> 45]

UpStart(f) == IF f = "weekly" THEN UpWeeklyStart(rs_now) ELSE UpBiweeklyStart(rs_now)
UpScan(f) == IF f = "weekly" THEN UP_WEEKLY_SCAN ELSE UP_BIWEEKLY_SCAN
\* the candidate numbers of an upward scan
UpRange(f) == UpStart(f)..(UpStart(f) + UpScan(f) - 1)

\* the contest exists and has not started
RsNotStarted(f, i) ==
    /\ RsAnswer(f, i).ok /\ Truthy(RsAnswer(f, i).start_time)
    /\ RsAnswer(f, i).start_time.v > rs_now

\* C22: get_upcoming_contests returns, per family, the lowest-numbered
\* candidate of its range that starts strictly after the current time, and
\* nothing when there is none, so never a window that has started; and
\* get_recent_contests with include_upcoming returns the first candidate of
\* its scan that exists, whatever its end.
C22_UpcomingLowestNotStarted ==
    /\ UpDone =>
          /\ ~rs_result.raised
          /\ \A f \in Families :
                LET coming == {i \in UpRange(f) : RsNotStarted(f, i)} IN
                IF coming # {}
                THEN /\ rs_result[f].some
                     /\ rs_result[f].info.slug =
                           SlugOf(f, CHOOSE i \in coming : \A j \in coming : i <= j)
                     /\ rs_result[f].info.start_time.v > rs_now
                ELSE ~rs_result[f].some
    /\ (RsDone /\ rs_include_upcoming) =>
          /\ ~rs_result.raised
          /\ \A f \in Families :
                LET existing == {i \in RsRange(f) :
                                    RsAnswer(f, i).ok /\ Truthy(RsAnswer(f, i).start_time)}
                IN existing # {} =>
                      /\ rs_result[f].some
                      /\ rs_result[f].info.slug =
                            SlugOf(f, CHOOSE i \in existing : \A j \in existing : j <= i)

\* the first candidate of the upward scan starts this very second, the
\* second one later: the second one is returned
C22_Witness ==
    /\ UpDone
    /\ \E f \in Families :
          /\ RsAnswer(f, UpStart(f)).ok
          /\ RsAnswer(f, UpStart(f)).start_time = SomeInt(rs_now)
          /\ RsNotStarted(f, UpStart(f) + 1)
          /\ rs_result[f].some
          /\ rs_result[f].info.slug = SlugOf(f, UpStart(f) + 1)
          /\ rs_result.probes[f] = 2

\* C23, as stated: every window a resolution returns has start_time <=
\* end_time and a non-empty problem set.
C23_WindowWellFormed ==
    ((RsDone \/ UpDone) /\ ~rs_result.raised) =>
        \A f \in Families :
            rs_result[f].some =>
                /\ rs_result[f].info.start_time.some
                /\ rs_result[f].info.end_time.some
                /\ rs_result[f].info.start_time.v <= rs_result[f].info.end_time.v
                /\ rs_result[f].info.problems # <<>>

(***************************************************************************)
(* The scheduler's claims.                                                 *)
(***************************************************************************)
ScAlive == sc_pc # "down"

\* The status of a new ContestStatusTracker built from the status file as
\* it is now, the file being read without error
ReloadedStatus == _load_status(sc_disk, TRUE)

\* The positions of a reconciliation run before mark_processed
BeforeMark == {"weekly", "biweekly", "t_weekly", "t_biweekly", "pc_write"}

\* C8, as stated: after mark_processed(slug) has returned, is_processed(slug)
\* is true in the same tracker and in a new tracker built from the status
\* file.
C8_MarkSurvivesReload ==
    sc_last_marked # "" =>
        /\ ScAlive => is_processed(sc_status, sc_last_marked)
        /\ is_processed(ReloadedStatus, sc_last_marked)

\* C8, amended: after mark_processed(slug) has returned, is_processed(slug)
\* is true in the same tracker; it is true in a new tracker built from the
\* status file when the last write of the file succeeded and the file is
\* read back without error.
C8_MarkSurvivesReloadWhenSaved ==
    sc_last_marked # "" =>
        /\ ScAlive => is_processed(sc_status, sc_last_marked)
        /\ sc_last_save = "ok" => is_processed(ReloadedStatus, sc_last_marked)

\* a mark was made and saved: a reload of the file finds it
C8_Witness ==
    /\ ScAlive
    /\ sc_last_marked # ""
    /\ sc_last_save = "ok"
    /\ is_processed(ReloadedStatus, sc_last_marked)

\* C9, as stated: over ticks, triggers, failures and restarts the results of
\* one contest slug are written by a completed run at most once.
C9_WrittenAtMostOnce ==
    \A s \in DOMAIN sc_completed : sc_completed[s] <= 1

\* C9, amended: one process writes the results of one contest slug at most
\* once, however often it sees the trigger true, and it starts no write for
\* a slug its tracker holds as processed; a process started later writes
\* them again when the mark is not in the status file it loads.
C9_WrittenOncePerProcess ==
    /\ \A s \in DOMAIN sc_life_writes : sc_life_writes[s] <= 1
    /\ sc_pc = "pc_write" => ~is_processed(sc_status, sc_run.slug)

\* the process wrote the weekly contest, looped, and has gone through the
\* weekly handler once more inside the trigger minutes without a write
C9_Witness ==
    /\ sc_pc = "biweekly"
    /\ sc_iter >= 1
    /\ is_weekly_trigger_time(sc_now)
    /\ \E s \in DOMAIN sc_life_writes :
          /\ sc_life_writes[s] = 1
          /\ is_processed(sc_status, s)
          /\ s = SlugOf("weekly", WeeklyStart(sc_now))

\* C10: a slug is in processed_contests, in memory or in the status file,
\* only when a sheet write for it has completed; and a step of a run before
\* mark_processed (the resolution, the problems, the configuration, the
\* evaluation, the write), failing or interrupted, leaves the tracker and
\* the file as they were.
C10_MarkedOnlyAfterWrite ==
    /\ [](\A s \in sc_status.processed_contests \cup sc_disk.status.processed_contests :
              Count(sc_writes, s) >= 1)
    /\ [][(sc_pc \in BeforeMark) =>
              (sc_disk' = sc_disk /\ (sc_pc' # "down" => sc_status' = sc_status))]_vars

\* a run failed at the write: the slug is not marked, the caller continues
C10_Witness ==
    /\ sc_pc = "t_biweekly"
    /\ sc_recent.weekly.some
    /\ ~is_processed(sc_status, sc_recent.weekly.info.slug)
    /\ Count(sc_life_writes, sc_recent.weekly.info.slug) = 0
    /\ sc_config
    /\ api_endpoint_index > 0

(***************************************************************************)
(* The polling loop.  sc_log is the history of the running process: when   *)
(* it started, the passes that looked at the three conditions, the         *)
(* handlers entered and failed in the current pass, the launches of the    *)
(* stats job and the calls of process_contest.                             *)
(***************************************************************************)
\* the process is in run(), not in the one-shot pass of --test
InLoop ==
    /\ sc_log.started >= 0
    /\ sc_pc \in {"loop", "daily", "weekly", "biweekly", "sleep"}
    /\ sc_recent = NoResolution

MinuteOf(t) == t \div 60

\* the passes of the loop that looked at the conditions in minute m
ChecksIn(m) == {i \in DOMAIN sc_log.checks : MinuteOf(sc_log.checks[i]) = m}

\* C11, as stated: in every wall-clock minute that has wholly passed since
\* the process entered run(), exactly one pass of the loop called the three
\* handlers.
C11_CheckedOncePerMinute ==
    InLoop =>
        \A m \in (MinuteOf(sc_log.started) + 1) .. (MinuteOf(sc_now) - 1) :
            Cardinality(ChecksIn(m)) = 1

\* Sunday 09:34:00 and 09:36:00 IST of the week of the model: the minutes
\* in which is_weekly_trigger_time is true
WeeklyWindowOpens == SUN_0800_IST + 94 * 60
WeeklyWindowCloses == WeeklyWindowOpens + 2 * 60

\* C12, as stated: a process that was in run() from before Sunday 09:34 IST
\* until after 09:35 IST, whatever second it started at, has looked at the
\* weekly trigger at least once while it was true.
C12_WeeklyWindowObserved ==
    (InLoop /\ sc_log.started < WeeklyWindowOpens /\ sc_now >= WeeklyWindowCloses) =>
        \E i \in DOMAIN sc_log.checks : is_weekly_trigger_time(sc_log.checks[i])

Handlers == {"daily", "weekly", "biweekly"}

\* C13: in a pass of the loop that looks at the conditions every handler is
\* entered, whatever failed in a handler before it in the same pass or in
\* an earlier pass: the stats subprocess failing or timing out, the
\* resolution, the evaluation, the write.
C13_FailureIsContained ==
    InLoop =>
        /\ sc_pc = "weekly" => "daily" \in sc_log.evaluated
        /\ sc_pc = "biweekly" => {"daily", "weekly"} \subseteq sc_log.evaluated
        /\ (sc_pc = "sleep" /\ sc_log.evaluated # {}) => sc_log.evaluated = Handlers
        /\ sc_pc \in {"daily", "loop"} => sc_log.evaluated = {}

\* the stats job failed in the first pass and again in the second, and the
\* second pass has still entered all three handlers
C13_Witness ==
    /\ InLoop
    /\ sc_pc = "sleep"
    /\ sc_log.evaluated = Handlers
    /\ {<<"daily", 1>>, <<"daily", 2>>} \subseteq sc_log.failed

\* the run has evaluated the students and is at the write or past it
Evaluating == sc_pc \in {"pc_write", "pc_mark"}

\* C14: in a run, a student whose history fetch fails on every attempt gets
\* N/A, every student has a result, which depends on the answers for that
\* student only, and the run goes on to the write and the mark.
C14_FetchFailureIsNotAttempted ==
    Evaluating =>
        /\ Len(sc_run.results) = Len(Students)
        /\ \A i \in 1..Len(Students) :
              /\ FetchFails(sc_run.answers[i]) => sc_run.results[i] = "N/A"
              /\ sc_run.answers[i] = <<Answer(<<>>)>> => sc_run.results[i] = "INVALID ID"
              /\ \A j \in 1..Len(Students) :
                    sc_run.answers[i] = sc_run.answers[j] => sc_run.results[i] = sc_run.results[j]
        /\ sc_pc = "pc_mark" => Count(sc_life_writes, sc_run.slug) = 1

\* the fetch failed for the first student, the second was evaluated and
\* has a count, the results are written and the mark is next
C14_Witness ==
    /\ sc_pc = "pc_mark"
    /\ FetchFails(sc_run.answers[1])
    /\ sc_run.results = <<"N/A", "1">>
    /\ Count(sc_life_writes, sc_run.slug) = 1

(***************************************************************************)
(* The one-shot pipeline                                                   *)
(***************************************************************************)
UnknownNet == <<Answer(<<>>)>>

\* C15, as stated, for run_pipeline: when an identity of the class is
\* unknown, INVALID ID is recorded for it, the other students are
\* evaluated, and the results are written (unless the sheet itself fails
\* or the run is a dry run).
C15_UnknownIsOrdinary ==
    (pl_pc \in {"write", "done"} /\ pl_failed_at \notin {"config", "problems", "students", "write"}
        /\ UnknownNet \in Range(pl_answers)) =>
        /\ Len(pl_results) = Len(Students)
        /\ \A i \in 1..Len(Students) :
              pl_answers[i] = UnknownNet => pl_results[i] = "INVALID ID"
        /\ (pl_pc = "done" /\ ~pl_dry_run) => pl_written = [some |-> TRUE, v |-> pl_results]

\* C16, as stated, for the scheduler: a process whose configuration could
\* not be loaded does no work: it has resolved no contest and has called
\* process_contest (whose first step is the problems) for none.
C16_NoConfigNoWork ==
    (ScAlive /\ ~sc_config) =>
        /\ sc_recent = NoResolution
        /\ sc_log.calls = <<>>

(***************************************************************************)
(* The daily stats job                                                     *)
(***************************************************************************)
\* this step launches update_stats.py
Launches == Len(sc_log'.launches) > Len(sc_log.launches)

\* C17, as stated: the job is launched only when last_stats_update differs
\* from today's date, and once a refresh has succeeded on a date no later
\* tick on that date launches it again.
C17_LaunchedOncePerDay ==
    [][Launches =>
          /\ ~is_stats_updated_today(sc_status, sc_now)
          /\ sc_refreshed # Today(sc_now)]_vars

\* C17, amended: the job is launched only when the last_stats_update the
\* tracker holds differs from today's date, and once a refresh has
\* succeeded on a date no later tick of the same process on that date
\* launches it again; a process started later does when the date is not in
\* the status file it loads.
C17_LaunchedOncePerDayInProcess ==
    [][Launches =>
          /\ sc_status.last_stats_update # Today(sc_now)
          /\ \A i \in DOMAIN sc_log.launches :
                sc_log.launches[i].ok => Today(sc_log.launches[i].at) # Today(sc_now)]_vars

\* the job succeeded in the first pass; the second pass, a minute later and
\* still in the trigger minutes, has gone through the handler without a
\* launch
C17_Witness ==
    /\ sc_pc = "weekly"
    /\ Len(sc_log.checks) = 2
    /\ IstHour(sc_now) = 12 /\ IstMinute(sc_now) <= 1
    /\ Len(sc_log.launches) = 1
    /\ sc_log.launches[1].ok

(***************************************************************************)
(* The biweekly trigger                                                    *)
(***************************************************************************)
\* the calls of process_contest try_process_biweekly has made
BiweeklyCalls == {i \in DOMAIN sc_log.calls : sc_log.calls[i].by = "biweekly"}

\* C18: the timed trigger starts a biweekly reconciliation only on Saturday
\* between 21:34 and 21:35 IST and when the most recent completed biweekly
\* contest the resolver found for is_biweekly_trigger_time ended between
\* 240 and 7200 seconds before, both included.
C18_BiweeklyOnlyInBand ==
    \A i \in BiweeklyCalls :
        LET c == sc_log.calls[i] IN
        /\ IstWeekday(c.at) = 5 /\ IstHour(c.at) = 21 /\ IstMinute(c.at) \in {34, 35}
        /\ 240 <= c.at - c.confirm /\ c.at - c.confirm <= 7200

\* a reconciliation was started 240 seconds after the end of the contest
C18_Witness ==
    /\ sc_pc = "pc_write"
    /\ sc_run.ret = "sleep"
    /\ BiweeklyCalls # {}
    /\ \A i \in BiweeklyCalls : sc_log.calls[i].at - sc_log.calls[i].confirm = 240

(***************************************************************************)
(* The tracker at startup                                                  *)
(***************************************************************************)
\* the tracker and the scheduler have been constructed and nothing else
\* has happened
Constructed == sc_pc \in {"loop", "t_resolve"} /\ sc_iter = 0 /\ sc_log.checks = <<>>

\* the contest slugs of the model's week
KnownSlugs ==
    {SlugOf("weekly", WeeklyStart(sc_now)), SlugOf("biweekly", BiweeklyStart(sc_now))}
    \cup sc_disk.status.processed_contests

\* C24: when the status file cannot be read or parsed at startup the
\* tracker is constructed all the same and its state is empty: no slug is
\* processed and the stats are not updated today.
C24_UnreadableFileGivesEmptyState ==
    (Constructed /\ sc_log.load = "failed") =>
        /\ \A slug \in KnownSlugs : ~is_processed(sc_status, slug)
        /\ ~is_stats_updated_today(sc_status, sc_now)

\* the file holds a processed contest and cannot be read: the process has
\* started with nothing processed
C24_Witness ==
    /\ Constructed
    /\ sc_log.load = "failed"
    /\ sc_disk.kind = "json"
    /\ sc_disk.status.processed_contests # {}
    /\ sc_status.processed_contests = {}

(***************************************************************************)
(* The value of an evaluation                                              *)
(***************************************************************************)
\* C38, as stated: evaluate_student_submissions returns N/A, 0, INVALID ID
\* or a positive decimal count and raises nothing, for every input, also
\* when the window is not supplied in full and the metadata lookup fails.
C38_AlwaysOneOutcome ==
    EvDone =>
        /\ ~ev_result.raised
        /\ \/ ev_result.value \in {"N/A", "0", "INVALID ID"}
           \/ \E k \in 1..MaxSubs : ev_result.value = ToString(k)

(***************************************************************************)
(* The unknown identity                                                    *)
(***************************************************************************)
\* The answer fetch_user_submissions decided on, and the answer that is
\* exactly {"count": 0, "submission": []}.
EvAnswer == ev_sub_net[EvF.attempts]
EvEmptyAnswer ==
    /\ EvAnswer.kind = "ok"
    /\ EvAnswer.has_count /\ EvAnswer.count = 0
    /\ EvAnswer.has_submission /\ EvAnswer.submission = <<>>
EvMinimalAnswer == EvEmptyAnswer /\ EvAnswer.extra = 0

C25_SaveFailureIsNotFatal ==
    [][(sc_pc = "pc_mark" /\ sc_pc' # "down" /\ sc_last_save' # "ok") =>
          /\ is_processed(sc_status', sc_run.slug)
          /\ Count(sc_completed', sc_run.slug) = Count(sc_completed, sc_run.slug) + 1]_vars

(***************************************************************************)
(* Test mode                                                               *)
(***************************************************************************)
\* The process was started with --test and has not ended.
TestMode ==
    \/ sc_pc \in {"t_resolve", "t_weekly", "t_biweekly", "exit"}
    \/ sc_pc \in {"pc_write", "pc_mark"} /\ sc_run.ret \in {"t_biweekly", "exit"}

TestCalls(handler) == {i \in DOMAIN sc_log.calls : sc_log.calls[i].by = handler}

\* The contest the next step of main --test hands to process_contest
TestCandidate ==
    CASE sc_pc = "t_weekly" -> sc_recent.weekly
      [] sc_pc = "t_biweekly" -> sc_recent.biweekly
      [] OTHER -> NoWindow

\* C27: under --test the process resolves once, calls process_contest at
\* most once for the weekly window and then at most once for the biweekly
\* one whatever the day and time, never enters the loop of run(), and
\* skips an occurrence that is marked done.
C27_TestModeIsOneShot ==
    [][TestMode =>
          /\ TestMode' \/ sc_pc' = "down"
          /\ (sc_pc' # "down") =>
                /\ (sc_pc # "t_resolve") => (sc_pc' # "t_resolve" /\ sc_recent' = sc_recent)
                /\ sc_log'.checks = <<>> /\ sc_log'.launches = <<>>
                /\ Cardinality(TestCalls("test_weekly")') <= 1
                /\ Cardinality(TestCalls("test_biweekly")') <= 1
                /\ DOMAIN sc_log'.calls = TestCalls("test_weekly")' \cup TestCalls("test_biweekly")'
                /\ \A i \in TestCalls("test_weekly")', j \in TestCalls("test_biweekly")' : i < j
                /\ (sc_pc \in {"t_weekly", "t_biweekly"} /\ TestCandidate.some) =>
                      Len(sc_log'.calls) = Len(sc_log.calls) + 1
                /\ (TestCandidate.some /\ TestCandidate.info.slug \in sc_status.processed_contests) =>
                      /\ sc_pc' \in {"t_biweekly", "exit"}
                      /\ sc_run' = NoRun
                      /\ UNCHANGED <<sc_status, sc_disk, sc_writes, sc_now, api_endpoint_index>>]_vars

\* Both calls were made on a Saturday evening or Sunday noon, and the weekly
\* occurrence, marked done in the file the process loaded, was skipped.
C27_Witness ==
    /\ sc_pc = "exit"
    /\ Len(sc_log.calls) = 2
    /\ ~is_weekly_trigger_time(sc_log.calls[1].at)
    /\ sc_log.calls[1].by = "test_weekly" /\ sc_log.calls[2].by = "test_biweekly"
    /\ sc_log.calls[1].slug \in sc_status.processed_contests
    /\ Count(sc_life_writes, sc_log.calls[1].slug) = 0

(***************************************************************************)
(* The results handed to the sheet                                         *)
(***************************************************************************)
\* process_contest is at sheets.write_contest_results(title, results, students)
AtWrite == sc_pc = "pc_write"

\* What the submissions API answered for student i of the run
FetchedFor(i) == fetch_user_submissions(sc_run.answers[i])

\* C28: the results a run hands to write_contest_results hold one outcome
\* for every student read from the sheet, in the order of the students:
\* entry i is INVALID ID exactly when student i is unknown, N/A when
\* student i is known and has no history, and N/A or a count otherwise.
C28_OneResultPerStudentInOrder ==
    AtWrite =>
        /\ DOMAIN sc_run.results = DOMAIN Students
        /\ DOMAIN sc_run.answers = DOMAIN Students
        /\ \A i \in DOMAIN Students :
              /\ sc_run.results[i] = "INVALID ID" <=> FetchedFor(i).unknown
              /\ (~FetchedFor(i).unknown /\ FetchedFor(i).subs = <<>>) =>
                    sc_run.results[i] = "N/A"
              /\ sc_run.results[i] \notin {"INVALID ID", "N/A"} => IntParses(sc_run.results[i])

\* the first student is unknown, the second has a count
C28_Witness ==
    /\ AtWrite
    /\ FetchedFor(1).unknown /\ ~FetchedFor(2).unknown
    /\ sc_run.results[1] = "INVALID ID" /\ IntParses(sc_run.results[2])

(***************************************************************************)
(* The passes of the loop                                                  *)
(***************************************************************************)
\* C29: no two passes of the loop that call the handlers fall in the same
\* wall-clock minute: such passes are at least 50 seconds apart and each
\* starts in the first 10 seconds of its minute.
C29_NoTwoChecksInOneMinute ==
    \A i, j \in DOMAIN sc_log.checks :
        i < j =>
            /\ sc_log.checks[j] >= sc_log.checks[i] + 50
            /\ sc_log.checks[i] % 60 < 10 /\ sc_log.checks[j] % 60 < 10
            /\ MinuteOf(sc_log.checks[i]) # MinuteOf(sc_log.checks[j])

\* A pass started in the minute of the last check and called no handler,
\* and the process has checked in two minutes.
C29_Witness ==
    /\ sc_pc = "sleep" /\ sc_log.evaluated = {}
    /\ Len(sc_log.checks) >= 2
    /\ MinuteOf(sc_now) = MinuteOf(sc_log.checks[Len(sc_log.checks)])

(***************************************************************************)
(* The timed weekly path                                                   *)
(***************************************************************************)
\* t, as UTC + 5 h 30 min, is a Sunday between 09:34:00 and 09:35:59
\* (1970-01-01 was a Thursday, so day 3 of the epoch was the first Sunday).
SundayMorningSlot(t) ==
    LET ist == t + 5 * 3600 + 30 * 60 IN
    /\ (ist \div 86400) % 7 = 3
    /\ (ist % 86400) \div 60 \in {9 * 60 + 34, 9 * 60 + 35}

WeeklyCalls == {i \in DOMAIN sc_log.calls : sc_log.calls[i].by = "weekly"}

\* C30: try_process_weekly calls process_contest only on a Sunday at 09:34
\* or 09:35 IST; at any other instant it resolves nothing, evaluates
\* nothing, writes nothing and changes no state.
C30_WeeklyOnlyInSundaySlot ==
    [][(sc_pc = "weekly" /\ sc_pc' # "down") =>
          /\ \A i \in WeeklyCalls' : SundayMorningSlot(sc_log'.calls[i].at)
          /\ ~SundayMorningSlot(sc_now) =>
                /\ sc_pc' = "biweekly"
                /\ sc_log'.calls = sc_log.calls /\ sc_log'.failed = sc_log.failed
                /\ UNCHANGED <<sc_now, sc_run, sc_recent, sc_status, sc_disk, sc_writes,
                               sc_life_writes, sc_completed, sc_last_marked, sc_last_save,
                               api_endpoint_index>>]_vars

\* The handler called process_contest at 09:35 on the Sunday, and the
\* process is past a later look at the weekly condition that did nothing.
C30_Witness ==
    /\ sc_pc = "biweekly"
    /\ WeeklyCalls # {}
    /\ \A i \in WeeklyCalls : SundayMorningSlot(sc_log.calls[i].at)
    /\ ~SundayMorningSlot(sc_now)
    /\ sc_run = NoRun

(***************************************************************************)
(* The tracker's state                                                     *)
(***************************************************************************)
\* C32: while a process lives, processed_contests only grows; a step that
\* sets last_stats_update leaves processed_contests as it is, and a step
\* that adds a slug leaves last_stats_update as it is.
C32_ProcessedOnlyGrows ==
    [][(sc_pc # "down" /\ sc_pc' # "down") =>
          /\ sc_status.processed_contests \subseteq sc_status'.processed_contests
          /\ (sc_status'.last_stats_update # sc_status.last_stats_update) =>
                sc_status'.processed_contests = sc_status.processed_contests
          /\ (sc_status'.processed_contests # sc_status.processed_contests) =>
                /\ sc_status'.last_stats_update = sc_status.last_stats_update
                /\ sc_status'.processed_contests =
                      sc_status.processed_contests \cup {sc_last_marked'}]_vars

\* mark_stats_updated has just run in a process that holds processed
\* contests, and they are all there
C32_Witness ==
    /\ sc_pc = "weekly"
    /\ sc_log.launches # <<>> /\ sc_log.launches[Len(sc_log.launches)].ok
    /\ sc_status.last_stats_update = Today(sc_now)
    /\ Cardinality(sc_status.processed_contests) = 2

(***************************************************************************)
(* The call for an occurrence that is done                                 *)
(***************************************************************************)
\* the step calls process_contest
CallsProcessContest == Len(sc_log'.calls) = Len(sc_log.calls) + 1
CalledSlug == sc_log'.calls[Len(sc_log'.calls)].slug

\* C33: process_contest called for a slug that is marked done returns with
\* no request for the problems or the submissions, no students read, no
\* evaluation, no write to the sheet, no backup and no change of the
\* tracker or its file.
C33_DoneIsSkippedWithoutEffect ==
    [][(sc_pc # "down" /\ sc_pc' # "down" /\ CallsProcessContest
           /\ CalledSlug \in sc_status.processed_contests) =>
          /\ sc_run' = NoRun
          /\ sc_pc' \in {"biweekly", "sleep", "t_biweekly", "exit"}
          /\ sc_log'.failed = sc_log.failed
          /\ UNCHANGED <<sc_now, api_endpoint_index, sc_status, sc_disk, sc_writes,
                         sc_life_writes, sc_completed, sc_last_marked, sc_last_save>>]_vars

\* the weekly handler of the loop called process_contest in the Sunday
\* slot for the occurrence the process had loaded as done, and went on
C33_Witness ==
    /\ sc_pc = "biweekly"
    /\ Len(sc_log.calls) = 1 /\ sc_log.calls[1].by = "weekly"
    /\ sc_log.calls[1].slug \in sc_status.processed_contests
    /\ sc_log.load = "read"
    /\ Count(sc_life_writes, sc_log.calls[1].slug) = 0
    /\ sc_log.failed = {} /\ sc_run = NoRun

(***************************************************************************)
(* The failed stats job                                                    *)
(***************************************************************************)
\* t, as UTC + 5 h 30 min, is between 12:00:00 and 12:01:59
NoonSlot(t) == ((t + 5 * 3600 + 30 * 60) % 86400) \div 60 \in {12 * 60, 12 * 60 + 1}

LastLaunch == sc_log.launches[Len(sc_log.launches)]

\* C34: a launch of the stats job that fails (exit code not 0, timeout,
\* exception) leaves last_stats_update and the file as they were, and the
\* daily condition holds again when the process looks at it next inside
\* the noon slot.
C34_FailedJobIsRetried ==
    [][(sc_pc = "daily" /\ sc_pc' # "down") =>
          /\ (Len(sc_log'.launches) = Len(sc_log.launches) + 1 /\ ~LastLaunch'.ok) =>
                /\ sc_status' = sc_status /\ sc_disk' = sc_disk
                /\ sc_refreshed' = sc_refreshed
          /\ (sc_log.launches # <<>> /\ ~LastLaunch.ok /\ NoonSlot(sc_now)) =>
                /\ is_daily_stats_trigger_time(sc_status, sc_now)
                /\ Len(sc_log'.launches) = Len(sc_log.launches) + 1]_vars

\* the job failed at 12:00 and was launched again at 12:01
C34_Witness ==
    /\ Len(sc_log.launches) = 2
    /\ ~sc_log.launches[1].ok
    /\ NoonSlot(sc_log.launches[1].at) /\ NoonSlot(sc_log.launches[2].at)
    /\ sc_log.launches[2].at > sc_log.launches[1].at

(***************************************************************************)
(* The loop goes on                                                        *)
(***************************************************************************)
\* the process is inside run()
LoopMode ==
    \/ sc_pc \in {"loop", "daily", "weekly", "biweekly", "sleep"}
    \/ sc_pc \in {"pc_write", "pc_mark"} /\ sc_run.ret \in {"biweekly", "sleep"}

\* C35: run() has no end but the interruption of the process: every step
\* inside it leads to a further point of the loop, a step in which a
\* handler fails goes on to the next handler or to the sleep, the sleep is
\* followed by a further pass, and the sleep and the start of a pass can
\* always be taken.
C35_LoopSurvivesFailures ==
    [][LoopMode =>
          /\ (sc_pc = "sleep" /\ sc_iter < MaxIterations) => ENABLED Sleep
          /\ (sc_pc = "loop") => ENABLED LoopTop
          /\ (sc_pc' # "down") =>
                /\ LoopMode'
                /\ (sc_log'.failed # sc_log.failed) => sc_pc' \in {"weekly", "biweekly", "sleep"}
                /\ (sc_pc = "sleep") => (sc_pc' = "loop" /\ sc_iter' = sc_iter + 1)]_vars

\* the stats job failed in the first pass and the second pass has begun
C35_Witness ==
    /\ sc_pc = "loop" /\ sc_iter = 1
    /\ <<"daily", 1>> \in sc_log.failed

(***************************************************************************)
(* The rows of the results                                                 *)
(***************************************************************************)
\* the identity in column C of sheet row r, "" when the row has none
IdentityInRow(r) ==
    IF r - 1 \in DOMAIN sh_rows /\ sh_rows[r - 1].len >= 3 THEN Strip(sh_rows[r - 1].id) ELSE ""

\* C36, as stated: every outcome written to the sheet is in the row of the
\* participant it was computed for, whoever called write_contest_results
\* (process_contest or run_pipeline) and whatever rows read_students
\* skipped.
C36_OutcomeInOwnRow ==
    \A c \in DOMAIN sh_cells :
        /\ IdentityInRow(c[2]) # ""
        /\ sh_cells[c] = OutcomeOf(IdentityInRow(c[2]))

(***************************************************************************)
(* The column of a contest                                                 *)
(***************************************************************************)
\* the columns of row 1 that hold the display name
ColumnsNamed(name) == {k \in DOMAIN sh_header : sh_header[k] = name}

\* C37: find_or_create_contest_column gives the same column for every call
\* with the same display name and adds at most one header cell for it; a
\* second write of a contest goes to the column of the first and adds no
\* column; after a row-aligned write the column holds its outcomes.
C37_ColumnIsFoundAgain ==
    /\ \A i, j \in DOMAIN sh_calls :
          (i < j /\ sh_calls[i].name = sh_calls[j].name) =>
              /\ sh_calls[j].col = sh_calls[i].col
              /\ ~sh_calls[j].created
    /\ \A i \in DOMAIN sh_calls :
          /\ ColumnsNamed(sh_calls[i].name) = {sh_calls[i].col}
          /\ \A s \in DOMAIN sh_students :
                (i = Len(sh_calls) /\ sh_calls[i].caller = "process_contest") =>
                    sh_cells[<<sh_calls[i].col, sh_students[s].row>>]
                        = OutcomeOf(sh_students[s].leetcode_id)
    /\ \E h \in Headers :
          /\ Len(h) <= Len(sh_header) /\ SubSeq(sh_header, 1, Len(h)) = h
          /\ Len(sh_header) <= Len(h) + Cardinality({sh_calls[i].name : i \in DOMAIN sh_calls})

\* the column was created by the first write and found by the second
C37_Witness ==
    /\ Len(sh_calls) = 2
    /\ sh_calls[1].name = sh_calls[2].name
    /\ sh_calls[1].created /\ ~sh_calls[2].created
    /\ sh_calls[1].col = sh_calls[2].col
    /\ sh_students # <<>>

(***************************************************************************)
(* The rotation of the mirrors of the submissions API                      *)
(***************************************************************************)
\* the step in which process_contest has evaluated the class
EvaluatesClass == sc_run = NoRun /\ sc_run' # NoRun

\* C39: a call of fetch_user_submissions makes between one and MAX_RETRIES
\* requests and ends with a list or with the unknown-identity signal; the
\* requests of the process, over the retries of a call and from one call to
\* the next, go to the mirrors in rotation: the request made with n
\* requests before it goes to mirror n mod 3, and a request never goes to
\* the mirror of the request before it.
C39_MirrorsRotate ==
    [][EvaluatesClass =>
          LET nets == sc_run'.answers
              api_bases == ClassApiBases(nets, 1, api_endpoint_index)
          IN
          /\ \A i \in DOMAIN nets :
                LET f == fetch_user_submissions(nets[i]) IN
                /\ f.attempts \in 1..MAX_RETRIES
                /\ f.unknown \in BOOLEAN
                /\ DOMAIN f.subs = 1..Len(f.subs)
                /\ f.unknown => f.subs = <<>>
          /\ api_endpoint_index' = api_endpoint_index + Len(api_bases)
          /\ \A k \in DOMAIN api_bases :
                api_bases[k] = (api_endpoint_index + k - 1) % NumEndpoints
          /\ \A k \in 1..(Len(api_bases) - 1) :
                api_bases[k + 1] = (api_bases[k] + 1) % NumEndpoints
                /\ api_bases[k + 1] # api_bases[k]]_vars

\* the first student's call failed on its three attempts, one on each
\* mirror, and the call for the next student went to the first mirror
\* again; the counter was past zero when the class was evaluated
C39_Witness ==
    /\ sc_run # NoRun
    /\ FetchFails(sc_run.answers[1])
    /\ api_endpoint_index > Len(ClassApiBases(sc_run.answers, 1, 0))
    /\ ClassApiBases(sc_run.answers, 1, 0) = <<0, 1, 2, 0>>

====
